---- MODULE Spec2Model ----
(***************************************************************************)
(* ARTify: the editor's adjustment pipeline (ui/workspace_page.py,         *)
(* EditorPage), the gallery's folders, editor panes and animation export   *)
(* (ui/gallery_page.py, GalleryPage), the upload page and the style        *)
(* transfer behind the progress bar (ui/upload_page.py, NewUploadPage,     *)
(* ModelWorker and ProgressBarPage).                                       *)
(*                                                                         *)
(* An image is a sequence of rows, a row a sequence of pixels, a pixel a   *)
(* sequence of 8-bit channel values (3 for "RGB", 4 for "RGBA").           *)
(* Library calls (PIL, numpy, Qt) are modelled by what they compute on     *)
(* 8-bit channels.  Where the library computes in floating point the model *)
(* uses the exact integer quotient; the slider values and pixel values the *)
(* model draws are ones for which both agree (noted at each definition).   *)
(***************************************************************************)
EXTENDS Integers, Sequences, FiniteSets, TLC

(***************************************************************************)
(* Bounds of the model.                                                    *)
(***************************************************************************)
\* number of user interactions explored from a freshly constructed EditorPage
MaxEdits == 2
\* largest absolute value of a noise sample drawn for one channel
MaxNoise == 300

(***************************************************************************)
(* Images and pixels.                                                      *)
(***************************************************************************)
Height(img) == Len(img)
Width(img) == Len(img[1])

SameSize(a, b) == Height(a) = Height(b) /\ Width(a) = Width(b)

\* v itself.  A function constructor is evaluated on demand, once for every
\* application; comparing the value computes it once and for all, so that a
\* chain of image operations costs the sum of its stages.
Computed(v) == IF v = v THEN v ELSE v

\* a new image with every channel of every pixel mapped through F
MapChannels(img, F(_)) ==
  LET out == [y \in 1..Height(img) |-> [x \in 1..Width(img) |->
                [c \in 1..Len(img[y][x]) |-> F(img[y][x][c])]]]
  IN  Computed(out)

\* a new image with every pixel mapped through F
MapPixels(img, F(_)) ==
  LET out == [y \in 1..Height(img) |-> [x \in 1..Width(img) |-> F(img[y][x])]]
  IN  Computed(out)

\* Image.new(mode, size, color): a solid image of the size of img
Solid(img, color) ==
  LET out == [y \in 1..Height(img) |-> [x \in 1..Width(img) |-> color]]
  IN  Computed(out)

Min(a, b) == IF a < b THEN a ELSE b
Max(a, b) == IF a > b THEN a ELSE b

\* CLIP8 of libImaging: saturate to the 8-bit range
CLIP8(v) == IF v < 0 THEN 0 ELSE IF v > 255 THEN 255 ELSE v

\* BlendChannel with the two images exchanged
BlendChannelExchanged(a, b, num, den) ==
  IF num = 0 THEN b
  ELSE IF num = den THEN a
  ELSE (b * den + num * (a - b)) \div den

(***************************************************************************)
(* PIL.Image.blend(im1, im2, alpha), alpha = num/den >= 0.                 *)
(* libImaging/Blend.c: alpha = 0 copies im1, alpha = 1 copies im2; for     *)
(* 0 < alpha < 1 each channel is (UINT8)(in1 + alpha*(in2 - in1)), which   *)
(* truncates; for alpha > 1 the value is clipped to [0,255] and truncated. *)
(* The quotient below equals the float32 result of Blend.c for every pair  *)
(* of channel values when alpha is one of 0, 1/4, 1/2, 3/4, 1 (sliders     *)
(* 0, 25, 50, 75, 100), for alpha = slider/50 and slider/10 + 1 at those   *)
(* slider values, for alpha = 0.3 against the channel values of the tint   *)
(* colours, and for every i/100 on the channel values 0, 60, 128, 255 that *)
(* the gallery images of the model use.                                    *)
(***************************************************************************)
BlendChannel(a, b, num, den) ==
  IF num = 0 THEN a
  ELSE IF num = den THEN b
  ELSE LET v == a * den + num * (b - a)
       IN  IF num < den THEN v \div den
           ELSE IF v <= 0 THEN 0
           ELSE IF v >= 255 * den THEN 255
           ELSE v \div den

Blend(im1, im2, num, den) ==
  LET out == [y \in 1..Height(im1) |-> [x \in 1..Width(im1) |->
                [c \in 1..Len(im1[y][x]) |->
                   BlendChannel(im1[y][x][c], im2[y][x][c], num, den)]]]
  IN  Computed(out)

\* Image.convert("L") of an RGB pixel (libImaging/Convert.c, L24 >> 16)
Luma(p) == (p[1] * 19595 + p[2] * 38470 + p[3] * 7471 + 32768) \div 65536

(***************************************************************************)
(* The colour filters of EditorPage (ui/workspace_page.py).                *)
(***************************************************************************)
apply_invert_above_half(image) ==
  MapChannels(image, LAMBDA v : IF v < 128 THEN v ELSE 255 - v)

\* ImageOps.invert(image.convert("RGB")): every channel v becomes 255 - v;
\* the images of the editor are opened with convert("RGB"), and convert("RGB")
\* of an RGB image is a copy
apply_invert(image) == MapChannels(image, LAMBDA v : 255 - v)

apply_grayscale_red_only(image) ==
  MapPixels(image, LAMBDA p : <<Luma(p), p[2], p[3]>>)

\* image.convert("L").convert("RGB"): L is the ITU-R 601-2 luma of the pixel
\* (Luma), and every channel of the RGB pixel is that L
apply_grayscale(image) ==
  MapPixels(image, LAMBDA p : <<Luma(p), Luma(p), Luma(p)>>)

apply_solarize_above(image, threshold) ==
  MapChannels(image, LAMBDA v : IF v <= threshold THEN v ELSE 255 - v)

\* ImageOps.solarize: lut[i] = i if i < threshold else 255 - i
apply_solarize(image, threshold) ==
  MapChannels(image, LAMBDA v : IF v < threshold THEN v ELSE 255 - v)

\* int(0.393*r + 0.769*g + 0.189*b) and so on, each clamped by min(.., 255).
\* The integer quotient is the double-precision result except on 878 of the
\* 2^24 colours, where the double sum falls just below an integer.
apply_sepia(image) ==
  MapPixels(image, LAMBDA p :
    <<Min((393 * p[1] + 769 * p[2] + 189 * p[3]) \div 1000, 255),
      Min((349 * p[1] + 686 * p[2] + 168 * p[3]) \div 1000, 255),
      Min((272 * p[1] + 534 * p[2] + 131 * p[3]) \div 1000, 255)>>)

\* ImageOps.colorize(grayscale, black="blue", white="yellow"): grey level i
\* maps to blue + i*(yellow - blue)//255 = (i, i, 255 - i)
apply_colorize(image) ==
  MapPixels(image, LAMBDA p : <<Luma(p), Luma(p), 255 - Luma(p)>>)

apply_posterize_shifted(image, bits) ==
  MapChannels(image, LAMBDA v : v \div (2 ^ (8 - bits)))

\* ImageOps.posterize: lut[i] = i & ~(2**(8 - bits) - 1)
apply_posterize(image, bits) ==
  MapChannels(image, LAMBDA v : v - (v % (2 ^ (8 - bits))))

\* np.clip(np_image + noise, 0, 255): noise holds one int16 sample for every
\* channel of every pixel
apply_noise(image, noise) ==
  LET out == [y \in 1..Height(image) |-> [x \in 1..Width(image) |->
                [c \in 1..Len(image[y][x]) |->
                   CLIP8(image[y][x][c] + noise[y][x][c])]]]
  IN  Computed(out)

\* Image.blend(image, Image.new("RGB", image.size, tint_color), alpha) with
\* alpha = slider/100 and tint_color = self.tint_color.getRgb()[:3]
apply_tint(image, tint_color, slider) ==
  Blend(image, Solid(image, tint_color), slider, 100)

(***************************************************************************)
(* ImageFilter.GaussianBlur(radius), libImaging/BoxBlur.c: three passes of *)
(* an extended box blur along the rows, then three along the columns.  One *)
(* pass replaces a channel by                                              *)
(*   (acc*ww + far*fw + 2^23) >> 24                                        *)
(* where acc sums the 2*radius+1 neighbours (indices clamped to the line)  *)
(* and far the two neighbours at distance radius+1.  BoxKernel gives       *)
(* (radius, ww, fw) as ImagingGaussianBlur derives them from the Gaussian  *)
(* radius in tenths; radius 0 returns a copy.                              *)
(***************************************************************************)
BoxKernel(tenths) ==
  CASE tenths = 10  -> [radius |-> 0,  ww |-> 11184811, fw |-> 2796202]
    [] tenths = 50  -> [radius |-> 4,  ww |-> 1694668,  fw |-> 762602]
    [] tenths = 100 -> [radius |-> 9,  ww |-> 840963,   fw |-> 399459]
    [] tenths = 150 -> [radius |-> 14, ww |-> 559862,   fw |-> 270609]
    [] tenths = 200 -> [radius |-> 19, ww |-> 419692,   fw |-> 204614]

Clamp(i, lo, hi) == IF i < lo THEN lo ELSE IF i > hi THEN hi ELSE i

\* how many of the positions x-r .. x+r of a line of n pixels are position j
\* once clamped to 1..n
WindowCount(x, j, r, n) ==
  LET lo == IF j = 1 THEN -r ELSE Max(-r, j - x)
      hi == IF j = n THEN r ELSE Min(r, j - x)
  IN  IF hi < lo THEN 0 ELSE hi - lo + 1

\* (acc*ww + far*fw + 2^23) >> 24, evaluated in base 4096 to stay in 32 bits
BoxSave(acc, far, k) ==
  LET hi == acc * (k.ww \div 4096) + far * (k.fw \div 4096)
      lo == acc * (k.ww % 4096) + far * (k.fw % 4096) + 8388608
  IN  (hi + (lo \div 4096)) \div 4096

\* one horizontal pass (ImagingLineBoxBlur8 on every row and band)
BoxBlurH(img, k) ==
  LET W == Width(img)
      r == k.radius
      out == [y \in 1..Height(img) |-> [x \in 1..W |->
        [c \in 1..Len(img[y][x]) |->
          LET acc[j \in 0..W] ==
                IF j = 0 THEN 0
                ELSE acc[j - 1] + WindowCount(x, j, r, W) * img[y][j][c]
              far == img[y][Clamp(x - r - 1, 1, W)][c]
                     + img[y][Clamp(x + r + 1, 1, W)][c]
          IN  BoxSave(acc[W], far, k)]]]
  IN  Computed(out)

\* one vertical pass (the same pass on the transposed image)
BoxBlurV(img, k) ==
  LET H == Height(img)
      r == k.radius
      out == [y \in 1..H |-> [x \in 1..Width(img) |->
        [c \in 1..Len(img[y][x]) |->
          LET acc[j \in 0..H] ==
                IF j = 0 THEN 0
                ELSE acc[j - 1] + WindowCount(y, j, r, H) * img[j][x][c]
              far == img[Clamp(y - r - 1, 1, H)][x][c]
                     + img[Clamp(y + r + 1, 1, H)][x][c]
          IN  BoxSave(acc[H], far, k)]]]
  IN  Computed(out)

GaussianBlur(img, tenths) ==
  IF tenths = 0 THEN img
  ELSE LET k == BoxKernel(tenths)
       IN  BoxBlurV(BoxBlurV(BoxBlurV(
             BoxBlurH(BoxBlurH(BoxBlurH(img, k), k), k), k), k), k)

\* image.filter(ImageFilter.GaussianBlur(blur_radius)), blur_radius = slider/5
apply_blur(image, slider) == GaussianBlur(image, 2 * slider)

(***************************************************************************)
(* The tone adjustments of apply_all_adjustments.                          *)
(***************************************************************************)
\* ImageEnhance.Brightness(image).enhance(slider/50): blend with black
enhance_brightness(image, slider) ==
  Blend(Solid(image, <<0, 0, 0>>), image, slider, 50)

\* the lookup table Image.point builds from
\*   lambda p: 255 * ((p / 255) ** inv_gamma),  inv_gamma = 1/max(0.1, slider/50)
\* (each entry rounded, then clipped to 8 bits), entry p+1 for channel value p
GammaLUT(slider) ==
  CASE slider = 0 ->
    <<
      0,0,0,0,0,0,0,0,0,0,0,0,0,0,0,0,0,0,0,0,0,0,0,0,0,0,0,0,0,0,0,0,0,0,0,
      0,0,0,0,0,0,0,0,0,0,0,0,0,0,0,0,0,0,0,0,0,0,0,0,0,0,0,0,0,0,0,0,0,0,0,
      0,0,0,0,0,0,0,0,0,0,0,0,0,0,0,0,0,0,0,0,0,0,0,0,0,0,0,0,0,0,0,0,0,0,0,
      0,0,0,0,0,0,0,0,0,0,0,0,0,0,0,0,0,0,0,0,0,0,0,0,0,0,0,0,0,0,0,0,1,1,1,
      1,1,1,1,1,1,1,1,1,1,1,1,1,2,2,2,2,2,2,2,2,3,3,3,3,3,3,4,4,4,4,5,5,5,6,
      6,6,7,7,7,8,8,9,9,10,10,11,11,12,13,13,14,15,16,17,17,18,19,20,21,22,
      24,25,26,27,29,30,32,33,35,37,38,40,42,44,46,48,51,53,56,58,61,64,67,
      70,73,76,80,83,87,91,95,99,103,108,113,118,123,128,133,139,145,151,
      157,164,171,178,185,193,201,209,218,227,236,245,255>>
    [] slider = 25 ->
    <<
      0,0,0,0,0,0,0,0,0,0,0,0,1,1,1,1,1,1,1,1,2,2,2,2,2,2,3,3,3,3,4,4,4,4,5,
      5,5,5,6,6,6,7,7,7,8,8,8,9,9,9,10,10,11,11,11,12,12,13,13,14,14,15,15,
      16,16,17,17,18,18,19,19,20,20,21,21,22,23,23,24,24,25,26,26,27,28,28,
      29,30,30,31,32,32,33,34,35,35,36,37,38,38,39,40,41,42,42,43,44,45,46,
      47,47,48,49,50,51,52,53,54,55,56,56,57,58,59,60,61,62,63,64,65,66,67,
      68,69,70,71,73,74,75,76,77,78,79,80,81,82,84,85,86,87,88,89,91,92,93,
      94,95,97,98,99,100,102,103,104,105,107,108,109,111,112,113,115,116,
      117,119,120,121,123,124,126,127,128,130,131,133,134,136,137,139,140,
      142,143,145,146,148,149,151,152,154,155,157,158,160,162,163,165,166,
      168,170,171,173,175,176,178,180,181,183,185,186,188,190,192,193,195,
      197,199,200,202,204,206,207,209,211,213,215,217,218,220,222,224,226,
      228,230,232,233,235,237,239,241,243,245,247,249,251,253,255>>
    [] slider = 50 ->
    <<
      0,1,2,3,4,5,6,7,8,9,10,11,12,13,14,15,16,17,18,19,20,21,22,23,24,25,
      26,27,28,29,30,31,32,33,34,35,36,37,38,39,40,41,42,43,44,45,46,47,48,
      49,50,51,52,53,54,55,56,57,58,59,60,61,62,63,64,65,66,67,68,69,70,71,
      72,73,74,75,76,77,78,79,80,81,82,83,84,85,86,87,88,89,90,91,92,93,94,
      95,96,97,98,99,100,101,102,103,104,105,106,107,108,109,110,111,112,
      113,114,115,116,117,118,119,120,121,122,123,124,125,126,127,128,129,
      130,131,132,133,134,135,136,137,138,139,140,141,142,143,144,145,146,
      147,148,149,150,151,152,153,154,155,156,157,158,159,160,161,162,163,
      164,165,166,167,168,169,170,171,172,173,174,175,176,177,178,179,180,
      181,182,183,184,185,186,187,188,189,190,191,192,193,194,195,196,197,
      198,199,200,201,202,203,204,205,206,207,208,209,210,211,212,213,214,
      215,216,217,218,219,220,221,222,223,224,225,226,227,228,229,230,231,
      232,233,234,235,236,237,238,239,240,241,242,243,244,245,246,247,248,
      249,250,251,252,253,254,255>>
    [] slider = 75 ->
    <<
      0,6,10,13,16,19,21,23,25,27,29,31,33,35,37,39,40,42,44,45,47,48,50,51,
      53,54,56,57,58,60,61,63,64,65,67,68,69,70,72,73,74,75,77,78,79,80,81,
      83,84,85,86,87,88,89,91,92,93,94,95,96,97,98,99,100,101,103,104,105,
      106,107,108,109,110,111,112,113,114,115,116,117,118,119,120,121,122,
      123,124,125,125,126,127,128,129,130,131,132,133,134,135,136,137,138,
      138,139,140,141,142,143,144,145,146,146,147,148,149,150,151,152,153,
      153,154,155,156,157,158,159,159,160,161,162,163,164,164,165,166,167,
      168,169,169,170,171,172,173,173,174,175,176,177,177,178,179,180,181,
      181,182,183,184,185,185,186,187,188,188,189,190,191,192,192,193,194,
      195,195,196,197,198,198,199,200,201,201,202,203,204,204,205,206,207,
      207,208,209,210,210,211,212,213,213,214,215,215,216,217,218,218,219,
      220,220,221,222,223,223,224,225,225,226,227,228,228,229,230,230,231,
      232,232,233,234,235,235,236,237,237,238,239,239,240,241,241,242,243,
      244,244,245,246,246,247,248,248,249,250,250,251,252,252,253,254,254,
      255>>
    [] slider = 100 ->
    <<
      0,16,23,28,32,36,39,42,45,48,50,53,55,58,60,62,64,66,68,70,71,73,75,
      77,78,80,81,83,84,86,87,89,90,92,93,94,96,97,98,100,101,102,103,105,
      106,107,108,109,111,112,113,114,115,116,117,118,119,121,122,123,124,
      125,126,127,128,129,130,131,132,133,134,135,135,136,137,138,139,140,
      141,142,143,144,145,145,146,147,148,149,150,151,151,152,153,154,155,
      156,156,157,158,159,160,160,161,162,163,164,164,165,166,167,167,168,
      169,170,170,171,172,173,173,174,175,176,176,177,178,179,179,180,181,
      181,182,183,183,184,185,186,186,187,188,188,189,190,190,191,192,192,
      193,194,194,195,196,196,197,198,198,199,199,200,201,201,202,203,203,
      204,204,205,206,206,207,208,208,209,209,210,211,211,212,212,213,214,
      214,215,215,216,217,217,218,218,219,220,220,221,221,222,222,223,224,
      224,225,225,226,226,227,228,228,229,229,230,230,231,231,232,233,233,
      234,234,235,235,236,236,237,237,238,238,239,240,240,241,241,242,242,
      243,243,244,244,245,245,246,246,247,247,248,248,249,249,250,250,251,
      251,252,252,253,253,254,254,255>>

gamma_value_unclamped(slider) == 2 * slider

\* gamma_value = max(0.1, slider / 50.0), in hundredths
gamma_value(slider) == Max(10, 2 * slider)

\* inv_gamma = 1.0 / gamma_value, as the fraction num/den; a float division
\* by 0.0 raises ZeroDivisionError
inv_gamma(slider) ==
  IF gamma_value(slider) = 0
  THEN [raised |-> "ZeroDivisionError", num |-> 100, den |-> 0]
  ELSE [raised |-> "none", num |-> 100, den |-> gamma_value(slider)]

adjust_gamma(image, slider) ==
  LET lut == GammaLUT(slider)
  IN  MapChannels(image, LAMBDA v : lut[v + 1])

\* ImageEnhance.Contrast(image).enhance(slider/50): blend with the solid grey
\* int(mean of image.convert("L") + 0.5)
MeanLuma(image) ==
  LET W == Width(image)
      n == W * Height(image)
      sum[i \in 0..n] ==
        IF i = 0 THEN 0
        ELSE sum[i - 1] + Luma(image[((i - 1) \div W) + 1][((i - 1) % W) + 1])
  IN  (2 * sum[n] + n) \div (2 * n)

enhance_contrast(image, slider) ==
  LET mean == MeanLuma(image)
  IN  Blend(Solid(image, <<mean, mean, mean>>), image, slider, 50)

\* ImageEnhance.Color(image).enhance(slider/50): blend with the grey image
enhance_color(image, slider) == Blend(apply_grayscale(image), image, slider, 50)

\* Image.convert("HSV") of one RGB pixel (libImaging/Convert.c, rgb2hsv_row):
\* v = max, s = 255*(max-min)/max, h = 255 * (sextant position / 6), both
\* truncated to 8 bits.  Convert.c computes h and s in floats; the integer
\* quotient differs from it by one level on 0.3% of the colours.
rgb2hsv(p) ==
  LET maxc == Max(p[1], Max(p[2], p[3]))
      minc == Min(p[1], Min(p[2], p[3]))
      cr == maxc - minc
      hn == IF p[1] = maxc THEN p[2] - p[3]
            ELSE IF p[2] = maxc THEN 2 * cr + (p[3] - p[1])
            ELSE 4 * cr + (p[1] - p[2])
      hpos == IF hn < 0 THEN hn + 6 * cr ELSE hn
  IN  IF minc = maxc THEN <<0, 0, maxc>>
      ELSE <<(255 * hpos) \div (6 * cr), (255 * cr) \div maxc, maxc>>

\* Image.convert("RGB") of one HSV pixel (Convert.c, hsv2rgb): i = floor(6h/255),
\* f = 6h/255 - i, p = round(v(1-s)), q = round(v(1-s*f)), t = round(v(1-s(1-f)))
hsv2rgb(p) ==
  LET h == p[1]
      s == p[2]
      v == p[3]
      i == (6 * h) \div 255
      F == (6 * h) % 255
      D == 255 * 255
      pp == (2 * v * (255 - s) + 255) \div 510
      q == (2 * v * (D - s * F) + D) \div (2 * D)
      t == (2 * v * (D - s * (255 - F)) + D) \div (2 * D)
  IN  IF s = 0 THEN <<v, v, v>>
      ELSE CASE i % 6 = 0 -> <<v, t, pp>>
             [] i % 6 = 1 -> <<q, v, pp>>
             [] i % 6 = 2 -> <<pp, v, t>>
             [] i % 6 = 3 -> <<pp, q, v>>
             [] i % 6 = 4 -> <<t, pp, v>>
             [] i % 6 = 5 -> <<v, pp, q>>

\* the table Image.point builds from lambda p: (p + hue_shift) % 256 with
\* hue_shift = (slider - 50) * 3.6: rounded to the nearest integer, clipped
HueLUT(slider, h) ==
  LET num == (10 * h + (slider - 50) * 36) % 2560
  IN  CLIP8((2 * num + 10) \div 20)

adjust_hue(image, slider) ==
  MapPixels(image, LAMBDA p :
    LET hsv == rgb2hsv(p)
    IN  hsv2rgb(<<HueLUT(slider, hsv[1]), hsv[2], hsv[3]>>))

\* adjust_temperature with a shift below zero taking blue down
adjust_temperature_blue_down(image, slider) ==
  LET temperature_shift == slider - 50
  IN  MapPixels(image, LAMBDA p :
        IF temperature_shift > 0
        THEN <<Min(255, p[1] + temperature_shift), p[2], p[3]>>
        ELSE <<p[1], p[2], Max(0, p[3] + temperature_shift)>>)

\* temperature_shift = slider - 50; a positive shift is added to red, any
\* other shift is subtracted from blue, both through min(255, ..)
adjust_temperature(image, slider) ==
  LET temperature_shift == slider - 50
  IN  MapPixels(image, LAMBDA p :
        IF temperature_shift > 0
        THEN <<Min(255, p[1] + temperature_shift), p[2], p[3]>>
        ELSE <<p[1], p[2], Min(255, p[3] - temperature_shift)>>)

\* image.filter(ImageFilter.SMOOTH): the 3x3 kernel (1,1,1, 1,5,1, 1,1,1)/13,
\* rounded; libImaging/Filter.c copies the one-pixel border unchanged
Smooth(image) ==
  LET H == Height(image)
      W == Width(image)
      out == [y \in 1..H |-> [x \in 1..W |->
        IF y = 1 \/ y = H \/ x = 1 \/ x = W THEN image[y][x]
        ELSE [c \in 1..Len(image[y][x]) |->
          LET s == image[y - 1][x - 1][c] + image[y - 1][x][c]
                   + image[y - 1][x + 1][c] + image[y][x - 1][c]
                   + 5 * image[y][x][c] + image[y][x + 1][c]
                   + image[y + 1][x - 1][c] + image[y + 1][x][c]
                   + image[y + 1][x + 1][c]
          IN  CLIP8((2 * s + 13) \div 26)]]]
  IN  Computed(out)

\* ImageEnhance.Sharpness(image).enhance(slider/10 + 1): blend of the smoothed
\* image and the image at factor (slider + 10)/10
enhance_sharpness(image, slider) == Blend(Smooth(image), image, slider + 10, 10)

(***************************************************************************)
(* Random draws.  np.random.normal is not seeded, so every render draws    *)
(* fresh samples; a draw is modelled by one truncated sample used for all  *)
(* channels of the image, and by the outcome of the float-to-uint8 cast.   *)
(***************************************************************************)
\* samples of np.random.normal(0, intensity * 255).astype(np.int16);
\* a standard deviation of 0 yields 0
NoiseSamples(slider) ==
  IF slider = 0 THEN {0} ELSE {-MaxNoise, -1, 0, 1, MaxNoise}

\* truncated samples of np.random.normal(127, 127 * intensity)
PaperSamples(slider) ==
  IF slider = 0 THEN {127}
  ELSE {127 - MaxNoise, -1, 126, 127, 256, 127 + MaxNoise}

\* .astype(np.uint8) of a float: exact inside 0..255; outside it the cast is
\* undefined in C and the build either wraps modulo 256 or saturates
CastUInt8(v, wraps) == IF wraps THEN v % 256 ELSE CLIP8(v)

\* generate_paper_texture(size, intensity): the cast samples, blurred with
\* GaussianBlur(1)
generate_paper_texture(image, sample, wraps) ==
  LET t == CastUInt8(sample, wraps)
  IN  GaussianBlur(Solid(image, <<t, t, t>>), 10)

(***************************************************************************)
(* Frames.  The rendered result is a canvas: size, border width and        *)
(* colour, and the image pasted inside the border, of which box is the     *)
(* crop rectangle (left, top, right, bottom).  An unframed image is the    *)
(* canvas of its own size with no border and the full box.                 *)
(***************************************************************************)
\* canvas_size=(800, 800) and frame_width=20 of apply_basic_frame
CanvasSize == 800
FrameWidth == 20

FrameStyles == <<"None", "Black", "White", "Gold", "Metallic">>

\* the mapping with the colours of Gold and Metallic exchanged
FrameColorExchanged(frame_color) ==
  CASE frame_color = "Black" -> <<0, 0, 0>>
    [] frame_color = "White" -> <<255, 255, 255>>
    [] frame_color = "Metallic" -> <<255, 215, 0>>
    [] frame_color = "Gold" -> <<192, 192, 192>>

FrameColor(frame_color) ==
  CASE frame_color = "Black" -> <<0, 0, 0>>
    [] frame_color = "White" -> <<255, 255, 255>>
    [] frame_color = "Metallic" -> <<192, 192, 192>>
    [] frame_color = "Gold" -> <<255, 215, 0>>

apply_basic_frame_around(image, frame_color) ==
  [size |-> <<Width(image) + 2 * FrameWidth, Height(image) + 2 * FrameWidth>>,
   border |-> FrameWidth, color |-> FrameColor(frame_color),
   box |-> <<0, 0, Width(image), Height(image)>>, image |-> image]

apply_basic_frame(image, frame_color) ==
  LET inner_width == CanvasSize - 2 * FrameWidth
      inner_height == CanvasSize - 2 * FrameWidth
      top == (Height(image) - inner_height) \div 2
      left == (Width(image) - inner_width) \div 2
      right == left + inner_width
      bottom == top + inner_height
  IN  [size |-> <<CanvasSize, CanvasSize>>, border |-> FrameWidth,
       color |-> FrameColor(frame_color),
       box |-> <<left, top, right, bottom>>, image |-> image]

Unframed(image) ==
  [size |-> <<Width(image), Height(image)>>, border |-> 0,
   color |-> <<0, 0, 0>>,
   box |-> <<0, 0, Width(image), Height(image)>>, image |-> image]

apply_frame(image, frame_style) ==
  IF frame_style \in {"Black", "White", "Gold", "Metallic"}
  THEN apply_basic_frame(image, frame_style)
  ELSE Unframed(image)

\* the pixel of a canvas at column x, row y (both from 0): the border colour,
\* or the pixel of the cropped image (black where the crop box leaves it)
CanvasPixel(canvas, x, y) ==
  LET b == canvas.border
      sx == canvas.box[1] + (x - b)
      sy == canvas.box[2] + (y - b)
  IN  IF x < b \/ y < b \/ x >= canvas.size[1] - b \/ y >= canvas.size[2] - b
      THEN canvas.color
      ELSE IF sx >= 0 /\ sx < Width(canvas.image)
              /\ sy >= 0 /\ sy < Height(canvas.image)
           THEN canvas.image[sy + 1][sx + 1]
           ELSE <<0, 0, 0>>

(***************************************************************************)
(* EditorPage.apply_all_adjustments.  P holds what the method reads from   *)
(* the widgets and from self: P.sliders, P.checks (the checkboxes of       *)
(* filters_enabled), P.tint_color (self.tint_color) and P.frame (the text  *)
(* of frame_dropdown); rnd holds the random draws of one call.             *)
(***************************************************************************)
SliderNames ==
  {"Transition", "Blur", "Posterize", "Solarize", "Noise", "Tint",
   "Paper Texture", "Exposure", "Gamma", "Brightness", "Contrast",
   "Saturation", "Hue", "Temperature", "Sharpness"}

FilterNames ==
  {"Sepia", "Grayscale", "Colorize", "Invert", "Blur", "Posterize",
   "Solarize", "Noise", "Tint", "Paper Texture"}

\* the filters whose slider (and dropdown) follows the checkbox
SliderFilters ==
  {"Blur", "Posterize", "Solarize", "Noise", "Tint", "Paper Texture"}

\* PipelineOrder with the hue statements ahead of the saturation statements
PipelineOrderHueFirst ==
  <<"Blend",
    "Invert", "Grayscale", "Solarize", "Sepia", "Colorize", "Posterize",
    "Noise", "Tint", "Blur",
    "Exposure", "Gamma", "Brightness", "Contrast", "Hue", "Saturation",
    "Temperature", "Sharpness",
    "Paper Texture",
    "Frame">>

\* the stages in the order of the statements of apply_all_adjustments
PipelineOrder ==
  <<"Blend",
    "Invert", "Grayscale", "Solarize", "Sepia", "Colorize", "Posterize",
    "Noise", "Tint", "Blur",
    "Exposure", "Gamma", "Brightness", "Contrast", "Saturation", "Hue",
    "Temperature", "Sharpness",
    "Paper Texture",
    "Frame">>

\* the condition under which the statement of a stage runs
\* the conditions with the blur applied whether or not its box is checked
StageAppliesBlurAlways(stage, P) ==
  IF stage = "Blur" THEN TRUE
  ELSE IF stage \in {"Invert", "Grayscale", "Solarize", "Sepia", "Colorize",
                     "Posterize", "Noise", "Tint"}
  THEN P.checks[stage]
  ELSE IF stage = "Paper Texture"
  THEN P.checks["Paper Texture"] /\ P.sliders["Paper Texture"] > 0
  ELSE TRUE

StageApplies(stage, P) ==
  IF stage \in {"Invert", "Grayscale", "Solarize", "Sepia", "Colorize",
                "Posterize", "Noise", "Tint", "Blur"}
  THEN P.checks[stage]
  ELSE IF stage = "Paper Texture"
  THEN P.checks["Paper Texture"] /\ P.sliders["Paper Texture"] > 0
  ELSE TRUE

\* the statement of one stage, applied to the working image
ApplyStage(stage, img, base, styled, P, rnd) ==
  CASE stage = "Blend" -> Blend(base, styled, P.sliders["Transition"], 100)
    [] stage = "Invert" -> apply_invert(img)
    [] stage = "Grayscale" -> apply_grayscale(img)
    [] stage = "Solarize" -> apply_solarize(img, P.sliders["Solarize"])
    [] stage = "Sepia" -> apply_sepia(img)
    [] stage = "Colorize" -> apply_colorize(img)
    [] stage = "Posterize" -> apply_posterize(img, P.sliders["Posterize"])
    [] stage = "Noise" ->
         apply_noise(img, Solid(img, <<rnd.noise, rnd.noise, rnd.noise>>))
    [] stage = "Tint" -> apply_tint(img, P.tint_color, P.sliders["Tint"])
    [] stage = "Blur" -> apply_blur(img, P.sliders["Blur"])
    [] stage = "Exposure" -> enhance_brightness(img, P.sliders["Exposure"])
    [] stage = "Gamma" -> adjust_gamma(img, P.sliders["Gamma"])
    [] stage = "Brightness" -> enhance_brightness(img, P.sliders["Brightness"])
    [] stage = "Contrast" -> enhance_contrast(img, P.sliders["Contrast"])
    [] stage = "Saturation" -> enhance_color(img, P.sliders["Saturation"])
    [] stage = "Hue" -> adjust_hue(img, P.sliders["Hue"])
    [] stage = "Temperature" -> adjust_temperature(img, P.sliders["Temperature"])
    [] stage = "Sharpness" -> enhance_sharpness(img, P.sliders["Sharpness"])
    [] stage = "Paper Texture" ->
         Blend(img, generate_paper_texture(img, rnd.paper, rnd.wraps),
               P.sliders["Paper Texture"], 100)
    [] stage = "Frame" -> img

\* the working image after the stages i.. of the pipeline
RECURSIVE RunStages(_, _, _, _, _, _)
RunStages(i, img, base, styled, P, rnd) ==
  IF i > Len(PipelineOrder) THEN img
  ELSE LET stage == PipelineOrder[i]
           out == IF StageApplies(stage, P)
                  THEN ApplyStage(stage, img, base, styled, P, rnd)
                  ELSE img
       IN  \* the stage is computed before the next one starts
           IF out = out THEN RunStages(i + 1, out, base, styled, P, rnd)
           ELSE img

\* the adjusted image before the frame is put around it
adjusted_image(base, styled, P, rnd) == RunStages(1, base, base, styled, P, rnd)

\* the image apply_all_adjustments saves as edit.png
apply_all_adjustments(base, styled, P, rnd) ==
  apply_frame(adjusted_image(base, styled, P, rnd), P.frame)

\* the stages that one call runs, in the order it runs them
StagesRun(P) == SelectSeq(PipelineOrder, LAMBDA stage : StageApplies(stage, P))

\* the draws one call can make
RandomDraws(P) ==
  [noise : IF P.checks["Noise"] THEN NoiseSamples(P.sliders["Noise"]) ELSE {0},
   paper : IF StageApplies("Paper Texture", P)
           THEN PaperSamples(P.sliders["Paper Texture"]) ELSE {127},
   wraps : IF StageApplies("Paper Texture", P) THEN BOOLEAN ELSE {FALSE}]

(***************************************************************************)
(* The state of one EditorPage.                                            *)
(***************************************************************************)
VARIABLES
  sliders,          \* self.sliders: the value of every QSlider
  filters_enabled,  \* self.filters_enabled: the state of every QCheckBox
  widget_enabled,   \* isEnabled() of the filter sliders and the tint dropdown
  dropdown_index,   \* currentIndex() of self.dropdowns ("Tint", "Frame")
  style_index,      \* currentIndex() of self.style_dropdown
  tint_color,       \* self.tint_color.getRgb()[:3]
  workspace,        \* database/workspace/<image>: one image per style
  baseline_image,   \* self.baseline_image
  original_image,   \* self.original_image: the image of the selected style
  temp_path_edit,   \* the content of editing/edit.png
  stage_trace,      \* the stages run by the call that wrote edit.png
  render_params,    \* the widget values read by the call that wrote edit.png
  last_op,          \* the handler that ran last, and its argument
  edits,            \* number of user interactions so far
  temp_subfolder,   \* the files in temporary_data/editor_temp/editing
  export_read,      \* the image export_image opened last, if any
  gallery_folder,   \* database/gallery/<image>: the original and the edits
  editor_overlay    \* the overlay message, the toolbar and the pending timers

editor_vars ==
  <<sliders, filters_enabled, widget_enabled, dropdown_index, style_index,
    tint_color, workspace, baseline_image, original_image, temp_path_edit,
    stage_trace, render_params, last_op, edits, temp_subfolder, export_read,
    gallery_folder, editor_overlay>>

\* what the handlers of the parameter widgets leave alone
saved_vars == <<export_read, gallery_folder, editor_overlay>>

\* the items of style_dropdown, lower-cased as update_image_display does
StyleNames == <<"original", "cezanne", "monet", "ukiyoe", "vangogh">>

\* the (name, hex code) items of the Tint colour dropdown, as RGB
TintColors ==
  <<<<255, 105, 180>>, <<255, 0, 0>>, <<255, 165, 0>>, <<255, 255, 0>>,
    <<0, 128, 0>>, <<0, 255, 255>>, <<0, 0, 255>>, <<128, 0, 128>>,
    <<128, 128, 128>>>>

\* QColor(None): frame_dropdown has no item data, and an invalid QColor
\* reports the RGB value (0, 0, 0)
InvalidColor == <<0, 0, 0>>

\* (default, minimum, maximum) each slider is created with in initUI
SliderDefault(name) ==
  CASE name = "Transition" -> 100
    [] name = "Blur" -> 50
    [] name = "Posterize" -> 1
    [] name = "Solarize" -> 0
    [] name = "Noise" -> 5
    [] name = "Tint" -> 30
    [] name = "Paper Texture" -> 0
    [] OTHER -> 50

SliderMin(name) == IF name = "Posterize" THEN 1 ELSE 0

SliderMax(name) ==
  CASE name = "Posterize" -> 8
    [] name = "Solarize" -> 255
    [] name \in {"Noise", "Paper Texture"} -> 50
    [] OTHER -> 100

\* the value update_image_display sets each slider to
ResetValue(key) ==
  IF key = "Transition" THEN 100
  ELSE IF key = "Posterize" THEN 1
  ELSE IF key = "Solarize" \/ key = "Paper Texture" THEN 0
  ELSE IF key = "Noise" THEN 10
  ELSE IF key = "Tint" THEN 30
  ELSE 50

\* what apply_all_adjustments reads in the current state
Params ==
  [sliders |-> sliders, checks |-> filters_enabled, tint_color |-> tint_color,
   frame |-> FrameStyles[dropdown_index["Frame"] + 1]]

(***************************************************************************)
(* Inputs drawn by the editor model.                                       *)
(***************************************************************************)
\* the images of one workspace entry, one per style, all of one size
Workspaces ==
  { [original |-> <<<<<<0, 0, 0>>, <<255, 128, 0>>>>>>,
     cezanne  |-> <<<<<<255, 255, 255>>, <<3, 200, 77>>>>>>,
     monet    |-> <<<<<<128, 128, 128>>, <<60, 60, 200>>>>>>,
     ukiyoe   |-> <<<<<<255, 0, 0>>, <<0, 255, 0>>>>>>,
     vangogh  |-> <<<<<<17, 34, 51>>, <<240, 230, 220>>>>>>] }

\* the positions a user moves a slider to
SliderSamples(name) ==
  CASE name = "Posterize" -> {1, 4, 8}
    [] name = "Solarize" -> {0, 128, 255}
    [] name = "Noise" -> {0, 5, 10}
    [] name = "Tint" -> {0, 30, 100}
    [] name = "Paper Texture" -> {0, 25, 50}
    [] OTHER -> {0, 50, 100}

(***************************************************************************)
(* The handlers of EditorPage.                                             *)
(***************************************************************************)
RenderSkipped(P, base, styled, folder) ==
  /\ temp_path_edit' = temp_path_edit
  /\ stage_trace' = stage_trace
  /\ render_params' = render_params
  /\ temp_subfolder' = folder

\* apply_all_adjustments with the widget values of the next state: writes
\* edit.png (one of the images the random draws allow) into the editing
\* folder, which holds the files of folder before the call
Render(P, base, styled, folder) ==
  /\ temp_path_edit' \in
       {apply_all_adjustments(base, styled, P, rnd) : rnd \in RandomDraws(P)}
  /\ stage_trace' = StagesRun(P)
  /\ render_params' = P
  /\ temp_subfolder' = folder \cup {"edit.png"}

\* the state update_image_display leaves: the editing folder emptied and
\* original.png written, the styled image loaded, every slider at its reset
\* value, every checkbox unchecked, both dropdowns at index 0, then
\* set_tint_color(itemData(0)) for "Tint" and for "Frame" and a last render
update_image_display(style) ==
  /\ original_image' = workspace[StyleNames[style + 1]]
  /\ sliders' = [key \in SliderNames |-> ResetValue(key)]
  /\ filters_enabled' = [key \in FilterNames |-> FALSE]
  /\ widget_enabled' = [w \in DOMAIN widget_enabled |->
        IF (w = "Tint Dropdown" /\ filters_enabled["Tint"])
           \/ (w \in SliderFilters /\ filters_enabled[w])
        THEN FALSE ELSE widget_enabled[w]]
  /\ dropdown_index' = [Tint |-> 0, Frame |-> 0]
  /\ tint_color' = InvalidColor
  /\ Render([sliders |-> sliders', checks |-> filters_enabled',
             tint_color |-> tint_color', frame |-> FrameStyles[1]],
            baseline_image, original_image', {"original.png"})

\* a group folder of database/gallery that does not exist (shutil.rmtree);
\* saved counts the files written so far and stands for time_ns and uuid4
NoFolder(saved) ==
  [exists |-> FALSE, original |-> {}, edits |-> {}, saved |-> saved]

\* EditorPage.__init__ / initUI: the widgets are created, the baseline image
\* is loaded and update_image_display() runs for the style "Original"
InitEditor ==
  /\ workspace \in Workspaces
  /\ baseline_image = workspace["original"]
  /\ original_image = workspace["original"]
  /\ sliders = [key \in SliderNames |-> ResetValue(key)]
  /\ filters_enabled = [key \in FilterNames |-> FALSE]
  /\ widget_enabled = [w \in SliderFilters \cup {"Tint Dropdown"} |-> FALSE]
  /\ dropdown_index = [Tint |-> 0, Frame |-> 0]
  /\ style_index = 0
  /\ tint_color = InvalidColor
  /\ temp_path_edit =
       apply_all_adjustments(baseline_image, original_image,
         [sliders |-> sliders, checks |-> filters_enabled,
          tint_color |-> tint_color, frame |-> FrameStyles[1]],
         [noise |-> 0, paper |-> 127, wraps |-> FALSE])
  /\ stage_trace =
       StagesRun([sliders |-> sliders, checks |-> filters_enabled,
                  tint_color |-> tint_color, frame |-> FrameStyles[1]])
  /\ render_params =
       [sliders |-> sliders, checks |-> filters_enabled,
        tint_color |-> tint_color, frame |-> FrameStyles[1]]
  /\ last_op = [op |-> "initUI", arg |-> "Original"]
  /\ edits = 0
  /\ temp_subfolder = {"original.png", "edit.png"}
  /\ export_read = {}
  /\ gallery_folder = NoFolder(0)
  /\ editor_overlay = [visible |-> FALSE, text |-> "", toolbar_enabled |-> TRUE,
                       timers |-> 0]

\* the user moves an enabled slider: valueChanged -> apply_all_adjustments
MoveSlider(name, value) ==
  /\ edits < MaxEdits
  /\ name \in SliderFilters => widget_enabled[name]
  /\ value # sliders[name]
  /\ sliders' = [sliders EXCEPT ![name] = value]
  /\ Render([Params EXCEPT !.sliders = sliders'], baseline_image, original_image,
            temp_subfolder)
  /\ last_op' = [op |-> "MoveSlider", arg |-> name]
  /\ edits' = edits + 1
  /\ UNCHANGED saved_vars
  /\ UNCHANGED <<filters_enabled, widget_enabled, dropdown_index, style_index,
                 tint_color, workspace, baseline_image, original_image>>

\* the handlers with the tint dropdown left out
CheckboxEnablesSlider(enabled, name, checked) ==
  [w \in DOMAIN enabled |-> IF w = name THEN checked ELSE enabled[w]]

\* checkbox.stateChanged -> slider.setEnabled(state == Qt.Checked), and for
\* Tint also dropdown.setEnabled(state == Qt.Checked)
CheckboxEnables(enabled, name, checked) ==
  [w \in DOMAIN enabled |->
     IF w = name \/ (w = "Tint Dropdown" /\ name = "Tint")
     THEN checked ELSE enabled[w]]

\* the user clicks a filter checkbox: stateChanged -> apply_all_adjustments,
\* then the slider (and the tint dropdown) is enabled iff it is checked
ToggleFilter(name) ==
  /\ edits < MaxEdits
  /\ filters_enabled' = [filters_enabled EXCEPT ![name] = ~filters_enabled[name]]
  /\ widget_enabled' =
       CheckboxEnables(widget_enabled, name, filters_enabled'[name])
  /\ Render([Params EXCEPT !.checks = filters_enabled'],
            baseline_image, original_image, temp_subfolder)
  /\ last_op' = [op |-> "ToggleFilter", arg |-> name]
  /\ edits' = edits + 1
  /\ UNCHANGED saved_vars
  /\ UNCHANGED <<sliders, dropdown_index, style_index, tint_color, workspace,
                 baseline_image, original_image>>

\* the user picks a tint colour: currentIndexChanged -> set_tint_color
SelectTintColor(index) ==
  /\ edits < MaxEdits
  /\ widget_enabled["Tint Dropdown"]
  /\ index # dropdown_index["Tint"]
  /\ dropdown_index' = [dropdown_index EXCEPT !["Tint"] = index]
  /\ tint_color' = TintColors[index + 1]
  /\ Render([Params EXCEPT !.tint_color = tint_color'],
            baseline_image, original_image, temp_subfolder)
  /\ last_op' = [op |-> "SelectTintColor", arg |-> "Tint"]
  /\ edits' = edits + 1
  /\ UNCHANGED saved_vars
  /\ UNCHANGED <<sliders, filters_enabled, widget_enabled, style_index,
                 workspace, baseline_image, original_image>>

\* the user picks a frame style: currentIndexChanged -> apply_all_adjustments
SelectFrame(index) ==
  /\ edits < MaxEdits
  /\ index # dropdown_index["Frame"]
  /\ dropdown_index' = [dropdown_index EXCEPT !["Frame"] = index]
  /\ Render([Params EXCEPT !.frame = FrameStyles[index + 1]],
            baseline_image, original_image, temp_subfolder)
  /\ last_op' = [op |-> "SelectFrame", arg |-> FrameStyles[index + 1]]
  /\ edits' = edits + 1
  /\ UNCHANGED saved_vars
  /\ UNCHANGED <<sliders, filters_enabled, widget_enabled, style_index,
                 tint_color, workspace, baseline_image, original_image>>

\* show_overlay_message(message, location): the toolbar is disabled, the
\* message shown over the button, and a single-shot timer started
editor_show_overlay_message(message) ==
  editor_overlay' = [visible |-> TRUE, text |-> message,
                     toolbar_enabled |-> FALSE,
                     timers |-> editor_overlay.timers + 1]

\* the timer of show_overlay_message fires: hide_overlay_message
editor_hide_overlay_message ==
  /\ editor_overlay.timers > 0
  /\ editor_overlay' = [visible |-> FALSE, text |-> editor_overlay.text,
                        toolbar_enabled |-> TRUE,
                        timers |-> editor_overlay.timers - 1]
  /\ last_op' = [op |-> "hide_overlay_message", arg |-> "timer"]
  /\ UNCHANGED <<sliders, filters_enabled, widget_enabled, dropdown_index,
                 style_index, tint_color, workspace, baseline_image,
                 original_image, temp_path_edit, stage_trace, render_params,
                 edits, temp_subfolder, export_read, gallery_folder>>

\* if not group_folder.exists(): mkdir and save the baseline image in it
GroupFolder(folder, baseline) ==
  IF ~folder.exists
  THEN [exists |-> TRUE, original |-> {baseline}, edits |-> {},
        saved |-> folder.saved]
  ELSE folder

\* shutil.copy(self.temp_path_edit, new_edit_path) under a new unique name
CopyEdit(folder, image) ==
  [folder EXCEPT !.edits = @ \cup {[name |-> folder.saved + 1, image |-> image]},
                 !.saved = @ + 1]

\* the user clicks Save to Gallery: the group folder is created with the
\* baseline image if it is not there, and edit.png is copied into it
\* (shutil.copy raises FileNotFoundError if edit.png does not exist)
save_to_gallery ==
  /\ edits < MaxEdits
  /\ edits' = edits + 1
  /\ IF "edit.png" \in temp_subfolder
     THEN /\ gallery_folder' =
               CopyEdit(GroupFolder(gallery_folder, baseline_image),
                        temp_path_edit)
          /\ editor_show_overlay_message("Image saved to Gallery.")
          /\ last_op' = [op |-> "save_to_gallery", arg |-> "saved"]
     ELSE /\ gallery_folder' = GroupFolder(gallery_folder, baseline_image)
          /\ last_op' = [op |-> "save_to_gallery", arg |-> "FileNotFoundError"]
          /\ UNCHANGED editor_overlay
  /\ UNCHANGED <<sliders, filters_enabled, widget_enabled, dropdown_index,
                 style_index, tint_color, workspace, baseline_image,
                 original_image, temp_path_edit, stage_trace, render_params,
                 temp_subfolder,
                 export_read>>

\* folder.glob("*.png"): the original and the edited images of the folder
PngFiles(folder) ==
  {[kind |-> "original", file |-> o] : o \in folder.original}
    \cup {[kind |-> "edit", file |-> e] : e \in folder.edits}

\* the test with the original left out of the count
OnlyFileLeft(folder) == Cardinality(PngFiles(folder)) <= 1

\* if len(styled_images) <= 2: the image is the last styled one of its set
LastStyledImage(folder) == Cardinality(PngFiles(folder)) <= 2

\* the gallery page: the user clicks the delete button of the editor pane
\* with an edited image selected in the dropdown and answers the question
\* (the dropdown lists the edited images of the folder, never the original)
confirm_delete_image(image_file, reply) ==
  /\ gallery_folder.exists
  /\ image_file \in gallery_folder.edits
  /\ gallery_folder' =
       IF ~reply THEN gallery_folder
       ELSE IF LastStyledImage(gallery_folder)
       THEN NoFolder(gallery_folder.saved)
       ELSE [gallery_folder EXCEPT !.edits = @ \ {image_file}]
  /\ last_op' = [op |-> "confirm_delete_image",
                 arg |-> IF reply THEN "Yes" ELSE "No"]
  /\ UNCHANGED <<sliders, filters_enabled, widget_enabled, dropdown_index,
                 style_index, tint_color, workspace, baseline_image,
                 original_image, temp_path_edit, stage_trace, render_params,
                 edits, temp_subfolder, export_read, editor_overlay>>

\* the gallery page: the user clicks the delete button over the original
\* image of a group and answers the question
confirm_delete_all(reply) ==
  /\ gallery_folder.exists
  /\ gallery_folder' =
       IF reply THEN NoFolder(gallery_folder.saved) ELSE gallery_folder
  /\ last_op' = [op |-> "confirm_delete_all",
                 arg |-> IF reply THEN "Yes" ELSE "No"]
  /\ UNCHANGED <<sliders, filters_enabled, widget_enabled, dropdown_index,
                 style_index, tint_color, workspace, baseline_image,
                 original_image, temp_path_edit, stage_trace, render_params,
                 edits, temp_subfolder, export_read, editor_overlay>>

\* the user clicks Export Current Image and picks a file name, or cancels
\* the dialog: Image.open(self.temp_path_edit) is saved under the name
export_image(chosen) ==
  /\ edits < MaxEdits
  /\ edits' = edits + 1
  /\ IF ~chosen
     THEN /\ last_op' = [op |-> "export_image", arg |-> "cancelled"]
          /\ UNCHANGED <<export_read, editor_overlay>>
     ELSE IF "edit.png" \in temp_subfolder
     THEN /\ export_read' = {temp_path_edit}
          /\ editor_show_overlay_message("Image exported.")
          /\ last_op' = [op |-> "export_image", arg |-> "exported"]
     ELSE /\ last_op' = [op |-> "export_image", arg |-> "FileNotFoundError"]
          /\ UNCHANGED <<export_read, editor_overlay>>
  /\ UNCHANGED <<sliders, filters_enabled, widget_enabled, dropdown_index,
                 style_index, tint_color, workspace, baseline_image,
                 original_image, temp_path_edit, stage_trace, render_params,
                 temp_subfolder,
                 gallery_folder>>

\* the user picks a style: currentIndexChanged -> update_image_display
SelectStyle(index) ==
  /\ edits < MaxEdits
  /\ index # style_index
  /\ style_index' = index
  /\ update_image_display(index)
  /\ last_op' = [op |-> "SelectStyle", arg |-> StyleNames[index + 1]]
  /\ edits' = edits + 1
  /\ UNCHANGED saved_vars
  /\ UNCHANGED <<workspace, baseline_image>>

(***************************************************************************)
(* The pipeline and its stages as functions: calls of apply_all_adjust-    *)
(* ments and of single stages on drawn images and parameter values.        *)
(***************************************************************************)
VARIABLES
  call_base,    \* the base image of the calls (self.baseline_image)
  call_styled,  \* the styled image of the calls (self.original_image)
  call_fn,      \* the function called last
  call_arg,     \* its arguments besides the images
  call_out      \* what it returned, one entry per call

call_vars == <<call_base, call_styled, call_fn, call_arg, call_out>>

Grey3x3 ==
  <<<<<<60, 60, 60>>, <<60, 60, 60>>, <<60, 60, 60>>>>,
    <<<<60, 60, 60>>, <<200, 200, 200>>, <<60, 60, 60>>>>,
    <<<<60, 60, 60>>, <<60, 60, 60>>, <<60, 60, 60>>>>>>

Colour3x3 ==
  <<<<<<255, 0, 0>>, <<0, 255, 0>>, <<0, 0, 255>>>>,
    <<<<10, 200, 30>>, <<128, 64, 250>>, <<255, 255, 255>>>>,
    <<<<0, 0, 0>>, <<77, 77, 77>>, <<250, 240, 3>>>>>>

\* pairs (base, styled) of equal-sized images
ImagePairs ==
  { <<<<<<<<0, 0, 0>>>>>>, <<<<<<255, 255, 255>>>>>>>>,
    <<<<<<<<120, 130, 140>>>>>>, <<<<<<250, 5, 100>>>>>>>>,
    <<<<<<<<0, 0, 0>>, <<255, 128, 0>>>>>>,
      <<<<<<255, 255, 255>>, <<3, 200, 77>>>>>>>>,
    <<Grey3x3, Colour3x3>>,
    <<Colour3x3, Grey3x3>> }

\* the parameter values of a freshly reset editor
ResetParams ==
  [sliders |-> [key \in SliderNames |-> ResetValue(key)],
   checks |-> [key \in FilterNames |-> FALSE],
   tint_color |-> InvalidColor, frame |-> "None"]

\* the parameter sets the calls draw: the reset values, with one slider
\* moved, one filter checked, a filter checked and its slider moved, a tint
\* colour or a frame chosen
ParamSets ==
  {ResetParams}
  \cup {[ResetParams EXCEPT !.sliders[name] = value] :
          name \in SliderNames \ SliderFilters,
          value \in {0, 25, 50, 75, 100}}
  \cup {[ResetParams EXCEPT !.checks[name] = TRUE] : name \in FilterNames}
  \cup UNION {{[ResetParams EXCEPT !.checks[name] = TRUE,
                                   !.sliders[name] = value] :
                 value \in SliderSamples(name)} : name \in SliderFilters}
  \cup {[ResetParams EXCEPT !.checks["Tint"] = TRUE, !.tint_color = TintColors[i]] :
          i \in 1..Len(TintColors)}
  \cup {[ResetParams EXCEPT !.frame = FrameStyles[i]] : i \in 1..Len(FrameStyles)}

\* the images are drawn and one function is then called on them
InitCalls ==
  /\ \E pair \in ImagePairs : call_base = pair[1] /\ call_styled = pair[2]
  /\ call_fn = "none"
  /\ call_arg = [slider |-> 0]
  /\ call_out = <<>>

\* Image.blend(original_image, styled_image, blend_value), the first stage
CallBlend(slider) ==
  /\ call_fn = "none"
  /\ call_fn' = "Blend"
  /\ call_arg' = [slider |-> slider]
  /\ call_out' = <<Blend(call_base, call_styled, slider, 100)>>
  /\ UNCHANGED <<call_base, call_styled>>

\* apply_all_adjustments twice on the same widget values, as it runs when a
\* filter slider moves (its valueChanged is connected to the method twice)
CallRender(P) ==
  /\ call_fn = "none"
  /\ call_fn' = "apply_all_adjustments"
  /\ call_arg' = P
  /\ \E rnd1 \in RandomDraws(P), rnd2 \in RandomDraws(P) :
       call_out' = <<apply_all_adjustments(call_base, call_styled, P, rnd1),
                     apply_all_adjustments(call_base, call_styled, P, rnd2)>>
  /\ UNCHANGED <<call_base, call_styled>>

\* apply_noise(image, slider / 100) with every sample of the noise array
\* equal to the drawn value
CallNoise(slider, sample) ==
  /\ call_fn = "none"
  /\ call_fn' = "apply_noise"
  /\ call_arg' = [slider |-> slider, sample |-> sample]
  /\ call_out' = <<apply_noise(call_base,
                               Solid(call_base, <<sample, sample, sample>>))>>
  /\ UNCHANGED <<call_base, call_styled>>

\* apply_sepia(image)
CallSepia ==
  /\ call_fn = "none"
  /\ call_fn' = "apply_sepia"
  /\ call_arg' = [slider |-> 0]
  /\ call_out' = <<apply_sepia(call_base)>>
  /\ UNCHANGED <<call_base, call_styled>>

\* the gamma statements of apply_all_adjustments
CallGamma(slider) ==
  /\ call_fn = "none"
  /\ call_fn' = "adjust_gamma"
  /\ call_arg' = [slider |-> slider]
  /\ call_out' = <<adjust_gamma(call_base, slider)>>
  /\ UNCHANGED <<call_base, call_styled>>

\* gamma_value and inv_gamma of apply_all_adjustments, for every position of
\* the Gamma slider
CallGammaValue(slider) ==
  /\ call_fn = "none"
  /\ call_fn' = "gamma_value"
  /\ call_arg' = [slider |-> slider]
  /\ call_out' = <<[gamma_value |-> gamma_value(slider),
                    inv_gamma |-> inv_gamma(slider)]>>
  /\ UNCHANGED <<call_base, call_styled>>

\* the thresholds the calls draw: both ends of the Solarize slider, the
\* docstring default and values next to channel values of the images
SolarizeSamples == {0, 1, 128, 129, 200, 255}

\* apply_solarize(image, threshold)
CallSolarize(threshold) ==
  /\ call_fn = "none"
  /\ call_fn' = "apply_solarize"
  /\ call_arg' = [slider |-> threshold]
  /\ call_out' = <<apply_solarize(call_base, threshold)>>
  /\ UNCHANGED <<call_base, call_styled>>

\* apply_posterize(image, bits), for every position of the Posterize slider
CallPosterize(bits) ==
  /\ call_fn = "none"
  /\ call_fn' = "apply_posterize"
  /\ call_arg' = [slider |-> bits]
  /\ call_out' = <<apply_posterize(call_base, bits)>>
  /\ UNCHANGED <<call_base, call_styled>>

\* apply_invert(image), and apply_invert of what it returned
CallInvert ==
  /\ call_fn = "none"
  /\ call_fn' = "apply_invert"
  /\ call_arg' = [slider |-> 0]
  /\ call_out' = <<apply_invert(call_base), apply_invert(apply_invert(call_base))>>
  /\ UNCHANGED <<call_base, call_styled>>

\* apply_grayscale(image)
CallGrayscale ==
  /\ call_fn = "none"
  /\ call_fn' = "apply_grayscale"
  /\ call_arg' = [slider |-> 0]
  /\ call_out' = <<apply_grayscale(call_base)>>
  /\ UNCHANGED <<call_base, call_styled>>

\* apply_frame(image) with the frame dropdown at the given style
CallFrame(frame_style) ==
  /\ call_fn = "none"
  /\ call_fn' = "apply_frame"
  /\ call_arg' = [slider |-> 0, frame |-> frame_style]
  /\ call_out' = <<apply_frame(call_base, frame_style)>>
  /\ UNCHANGED <<call_base, call_styled>>

\* the temperature statements of apply_all_adjustments
CallTemperature(slider) ==
  /\ call_fn = "none"
  /\ call_fn' = "adjust_temperature"
  /\ call_arg' = [slider |-> slider]
  /\ call_out' = <<adjust_temperature(call_base, slider)>>
  /\ UNCHANGED <<call_base, call_styled>>

\* generate_paper_texture(image.size, slider / 100) with every sample of the
\* normal array equal to the drawn value
CallPaperTexture(slider, sample, wraps) ==
  /\ call_fn = "none"
  /\ call_fn' = "generate_paper_texture"
  /\ call_arg' = [slider |-> slider, sample |-> sample]
  /\ call_out' = <<generate_paper_texture(call_base, sample, wraps)>>
  /\ UNCHANGED <<call_base, call_styled>>

\* the widget values with at most one filter checked and no slider moved
ToggleParamSets ==
  {ResetParams}
  \cup {[ResetParams EXCEPT !.checks[name] = TRUE] : name \in FilterNames}

\* widget values that differ from P in the slider of one unchecked filter,
\* in the tint colour while Tint is unchecked, or in the Paper Texture box
\* while its slider is at 0
Variations(P) ==
  UNION {{[P EXCEPT !.sliders[name] = value] : value \in SliderSamples(name)} :
           name \in {f \in SliderFilters : ~P.checks[f]}}
  \cup {[P EXCEPT !.tint_color = TintColors[i]] :
          i \in {j \in {1, Len(TintColors)} : ~P.checks["Tint"]}}
  \cup {[P EXCEPT !.checks["Paper Texture"] = ~P.checks["Paper Texture"]] :
          i \in {j \in {1} : P.sliders["Paper Texture"] = 0}}

\* apply_all_adjustments on the widget values P and on a variation Q of
\* them, both with the same random draws
CallRenderPair(P, Q) ==
  /\ call_fn = "none"
  /\ call_fn' = "apply_all_adjustments pair"
  /\ call_arg' = [first |-> P, second |-> Q]
  /\ \E rnd \in RandomDraws(P) :
       call_out' = <<apply_all_adjustments(call_base, call_styled, P, rnd),
                     apply_all_adjustments(call_base, call_styled, Q, rnd)>>
  /\ UNCHANGED <<call_base, call_styled>>

\* the temperature slider positions the calls draw
TemperatureSamples == {0, 1, 25, 49, 50, 51, 75, 99, 100}

(***************************************************************************)
(* The animation export and the before/after preview of one gallery editor *)
(* pane (gallery_page.py).  Pixels are RGBA here: both images are opened   *)
(* with convert("RGBA").                                                   *)
(***************************************************************************)
VARIABLES
  anim_original,   \* original_pixmap: the original image of the pane
  anim_styled,     \* styled_pixmap: the styled image of the pane
  gif_export,      \* what the last export_animation_gif did
  video_export,    \* what the last export_animation_video did
  preview,         \* the pixmap update_before_after put on the label
  animation_temp,  \* temporary_data/animation_temp exists
  overlay_visible, \* the overlay message of the pane is visible
  toolbar_enabled, \* self.toolbar.isEnabled()
  hide_timers,     \* pending QTimer.singleShot calls of hide_overlay_message
  anim_ops         \* number of user interactions with the pane so far

anim_vars ==
  <<anim_original, anim_styled, gif_export, video_export, preview,
    animation_temp, overlay_visible, toolbar_enabled, hide_timers, anim_ops>>

\* range(101): the frames of one animation
FrameCount == 101

AnimationModes == {"Transition", "Before/After"}

\* image.crop((left, 0, right, height))
Crop(image, left, right) ==
  LET out == [y \in 1..Height(image) |-> [x \in 1..(right - left) |->
                image[y][left + x]]]
  IN  Computed(out)

\* image.paste(im, (left, 0)) for an im of the height of image: the columns
\* of im replace the columns of image from left on, clipped to the image
Paste(image, im, left) ==
  LET out == [y \in 1..Height(image) |-> [x \in 1..Width(image) |->
                IF x > left /\ x <= left + Width(im)
                THEN im[y][x - left] ELSE image[y][x]]]
  IN  Computed(out)

\* the frame indices i at which the double product width * (i / 100.0) is
\* below the integer width * i / 100 (evaluated in IEEE 754 double precision
\* for the widths 1..100 and 800)
SplitShort(width) ==
  CASE width = 50 -> {58}
    [] width = 90 -> {70}
    [] width \in {100, 800} -> {29, 57, 58}
    [] OTHER -> {}

\* int(width * (i / 100.0))
split_position(width, i) ==
  IF i \in SplitShort(width) THEN (width * i) \div 100 - 1
  ELSE (width * i) \div 100

\* TransitionFrame running from the styled image to the original image
TransitionFrameBackwards(original, styled, i) ==
  Blend(styled, original, i, 100)

\* the Transition branch of the frame loop
TransitionFrame(original, styled, i) ==
  Blend(original, styled, i, 100)

\* the Before/After branch of the frame loop: a copy of the styled image
\* with the crop of the original image from the split position to the right
\* edge pasted at the split position
BeforeAfterFrame(original, styled, i) ==
  LET width == Width(styled)
      split == split_position(width, i)
  IN  Paste(styled, Crop(original, split, width), split)

\* the frames of the loop "for i in range(101)"
GenerateFrames(mode, original, styled) ==
  [k \in 1..FrameCount |->
     IF mode = "Transition"
     THEN TransitionFrame(original, styled, k - 1)
     ELSE BeforeAfterFrame(original, styled, k - 1)]

\* the user interactions with the pane in one behaviour
MaxAnimOps == 2

\* show_overlay_message("Animation exported.", button, overlay)
show_overlay_message ==
  /\ toolbar_enabled' = FALSE
  /\ overlay_visible' = TRUE
  /\ hide_timers' = hide_timers + 1

\* the single-shot timer of show_overlay_message fires
hide_overlay_message ==
  /\ hide_timers > 0
  /\ overlay_visible' = FALSE
  /\ toolbar_enabled' = TRUE
  /\ hide_timers' = hide_timers - 1
  /\ UNCHANGED <<anim_original, anim_styled, gif_export, video_export,
                 preview, animation_temp, anim_ops>>

\* export_animation_gif(mode, ..): the frames are generated, then the save
\* dialog returns a file path or "" (chosen = FALSE)
export_animation_gif(mode, chosen) ==
  /\ anim_ops < MaxAnimOps
  /\ anim_ops' = anim_ops + 1
  /\ gif_export' = [mode |-> mode, saved |-> chosen,
                    frames |-> GenerateFrames(mode, anim_original, anim_styled)]
  /\ animation_temp' = FALSE
  /\ IF chosen THEN show_overlay_message
     ELSE UNCHANGED <<overlay_visible, toolbar_enabled, hide_timers>>
  /\ UNCHANGED <<anim_original, anim_styled, video_export, preview>>

\* export_animation_video(mode, ..): the save dialog comes first and the
\* method returns at once when it is cancelled
export_animation_video(mode, chosen) ==
  /\ anim_ops < MaxAnimOps
  /\ anim_ops' = anim_ops + 1
  /\ IF chosen
     THEN /\ video_export' =
               [mode |-> mode, saved |-> TRUE,
                frames |-> GenerateFrames(mode, anim_original, anim_styled)]
          /\ animation_temp' = FALSE
          /\ show_overlay_message
     ELSE /\ video_export' = [mode |-> mode, saved |-> FALSE, frames |-> <<>>]
          /\ animation_temp' = TRUE
          /\ UNCHANGED <<overlay_visible, toolbar_enabled, hide_timers>>
  /\ UNCHANGED <<anim_original, anim_styled, gif_export, preview>>

\* QPixmap.copy(x, 0, width, height): an empty rectangle copies the whole
\* pixmap
PixmapCopy(pixmap, x, width) ==
  IF width <= 0 THEN pixmap ELSE Crop(pixmap, x, x + width)

\* QPixmap.fill(Qt.transparent)
Transparent == <<0, 0, 0, 0>>

\* update_before_after(slider_value, label, original_pixmap, styled_pixmap):
\* both copies are drawn on a transparent pixmap, the second over the first
\* (the pixmaps are opaque, so drawing replaces the pixels)
update_before_after(slider_value) ==
  LET width == Width(anim_original)
      split == (width * slider_value) \div 100
      blended_pixmap == Solid(anim_original, Transparent)
      left == Paste(blended_pixmap, PixmapCopy(anim_styled, 0, split), 0)
      both == Paste(left, PixmapCopy(anim_original, split, width - split),
                    split)
  IN  /\ anim_ops < MaxAnimOps
      /\ anim_ops' = anim_ops + 1
      /\ preview' = [slider |-> slider_value, pixmap |-> both]
      /\ UNCHANGED <<anim_original, anim_styled, gif_export, video_export,
                     animation_temp, overlay_visible, toolbar_enabled,
                     hide_timers>>

\* a row of width pixels whose columns cycle through four colours
Striped(width, colours) ==
  <<[x \in 1..width |-> colours[(x % 4) + 1]]>>

\* pairs (original, styled) of opaque images of equal size
AnimationPairs ==
  { <<<<<<<<0, 0, 0, 255>>>>>>, <<<<<<255, 255, 255, 255>>>>>>>>,
    <<<<<<<<0, 0, 0, 255>>, <<60, 60, 60, 255>>, <<128, 0, 255, 255>>>>,
        <<<<255, 0, 0, 255>>, <<0, 128, 0, 255>>, <<60, 128, 255, 255>>>>>>,
      <<<<<<255, 255, 255, 255>>, <<128, 128, 128, 255>>, <<0, 255, 0, 255>>>>,
        <<<<0, 60, 60, 255>>, <<255, 255, 0, 255>>, <<0, 0, 60, 255>>>>>>>>,
    <<Striped(7, <<<<0, 60, 128, 255>>, <<60, 60, 60, 255>>,
                   <<128, 0, 0, 255>>, <<255, 255, 0, 255>>>>),
      Striped(7, <<<<255, 128, 60, 255>>, <<0, 0, 128, 255>>,
                   <<0, 255, 255, 255>>, <<60, 0, 255, 255>>>>)>>,
    <<Striped(100, <<<<0, 60, 128, 255>>, <<60, 60, 60, 255>>,
                     <<128, 0, 0, 255>>, <<255, 255, 0, 255>>>>),
      Striped(100, <<<<255, 128, 60, 255>>, <<0, 0, 128, 255>>,
                     <<0, 255, 255, 255>>, <<60, 0, 255, 255>>>>)>> }

NoExport == [mode |-> "none", saved |-> FALSE, frames |-> <<>>]

InitAnimation ==
  /\ \E pair \in AnimationPairs :
       anim_original = pair[1] /\ anim_styled = pair[2]
  /\ gif_export = NoExport
  /\ video_export = NoExport
  /\ preview = [slider |-> 0, pixmap |-> <<>>]
  /\ animation_temp = FALSE
  /\ overlay_visible = FALSE
  /\ toolbar_enabled = TRUE
  /\ hide_timers = 0
  /\ anim_ops = 0

\* the slider positions of the before/after preview that are drawn
PreviewSamples == {0, 29, 100}

(***************************************************************************)
(* The style transfer of one ProgressBarPage (ui/upload_page.py): the      *)
(* ModelWorker running in its thread, run_test_script                      *)
(* (utils/run_cycleGAN.py), and the page's slots, to which the worker's    *)
(* signals are delivered in the order they were emitted.                   *)
(*                                                                         *)
(* A value that Python code tests or concatenates is a record: is_str      *)
(* tells a str from the bool False, text is the string.                    *)
(***************************************************************************)
VARIABLES
  worker_pc,        \* where ModelWorker.run is: "start", "loop", "finish", "done"
  artists,          \* the dictionary artists of run
  progress,         \* the counter progress of run
  executions,       \* the subprocesses run so far and what run_test_script returned
  emitted,          \* the signals the worker has emitted, oldest first
  event_queue,      \* the emitted signals not yet delivered to the page
  results_dir,      \* the styles with images under temporary_data/results
  datasets_dir,     \* temporary_data/datasets/images/testB holds the images
  progress_bar,     \* the value of the page's progress bar
  loading_overlay,  \* the page's overlay is shown
  thread_running,   \* the QThread has not been told to quit
  page_trace,       \* the statements on_processing_finished has executed
  navigation,       \* the navigation signals the page has emitted
  workspace_group,  \* the files moved into the group folder of database/workspace
  error_popup       \* the error dialog: closed, or open with its text

worker_vars ==
  <<worker_pc, artists, progress, executions, emitted, event_queue, results_dir,
    datasets_dir, progress_bar, loading_overlay, thread_running, page_trace,
    navigation, workspace_group, error_popup>>

PyFalse == [is_str |-> FALSE, text |-> "False"]
PyStr(s) == [is_str |-> TRUE, text |-> s]

\* bool(value): False is false, a str is true unless it is empty
Truthy(value) == value.is_str /\ value.text # ""

\* the keys of artists, in the order the loop visits them
Artists ==
  <<"style_cezanne_pretrained", "style_monet_pretrained",
    "style_ukiyoe_pretrained", "style_vangogh_pretrained">>

\* how test.py can end: exit status 0 with or without warnings on stderr, a
\* failure with a traceback, and a failure that writes nothing to stderr (a
\* bare exit status, or the process killed by a signal)
SubprocessOutcomes ==
  { [returncode |-> 0, stderr |-> ""],
    [returncode |-> 0, stderr |-> "UserWarning"],
    [returncode |-> 1, stderr |-> "Traceback"],
    [returncode |-> -9, stderr |-> ""] }

\* subprocess.run(..., check=True) raises CalledProcessError for a non-zero
\* exit status; the function returns False, or e.stderr from the handler
run_test_script(outcome) ==
  IF outcome.returncode = 0 THEN PyFalse ELSE PyStr(outcome.stderr)

\* signal.emit(value): recorded, and queued for the page's thread
Emit(signal, artist, value) ==
  LET s == [signal |-> signal, artist |-> artist, value |-> value]
  IN  /\ emitted' = Append(emitted, s)
      /\ event_queue' = Append(event_queue, s)

PageUnchanged ==
  UNCHANGED <<progress_bar, loading_overlay, thread_running, page_trace,
              navigation, workspace_group, error_popup>>

\* run, up to the loop: the folders are cleared, the selected images copied
\* into testB, artists and progress initialised
run_setup ==
  /\ worker_pc = "start"
  /\ worker_pc' = "loop"
  /\ datasets_dir' = TRUE
  /\ results_dir' = {}
  /\ artists' = [a \in {Artists[i] : i \in 1..Len(Artists)} |-> PyFalse]
  /\ progress' = 0
  /\ UNCHANGED <<executions, emitted, event_queue>>
  /\ PageUnchanged

\* one iteration of the loop: the subprocess of the next artist ends with
\* the given outcome (a successful one has written its images)
run_artist(outcome) ==
  /\ worker_pc = "loop"
  /\ LET artist == Artists[Len(executions) + 1]
         execution == run_test_script(outcome)
     IN  /\ executions' = Append(executions,
              [artist |-> artist, outcome |-> outcome, execution |-> execution])
         /\ results_dir' = IF outcome.returncode = 0
                           THEN results_dir \cup {artist} ELSE results_dir
         /\ IF ~Truthy(execution)
            THEN /\ artists' = [artists EXCEPT ![artist] = PyStr("images")]
                 /\ progress' = progress + 25
                 /\ Emit("progress", artist, [progress |-> progress', status |-> ""])
            ELSE /\ artists' = [artists EXCEPT ![artist] = execution]
                 /\ UNCHANGED <<progress, emitted, event_queue>>
  /\ worker_pc' = IF Len(executions') = Len(Artists) THEN "finish" ELSE "loop"
  /\ UNCHANGED datasets_dir
  /\ PageUnchanged

\* the end of run: the finished signal with the summary
run_finished ==
  /\ worker_pc = "finish"
  /\ worker_pc' = "done"
  /\ Emit("finished", "all",
          [progress |-> progress,
           status |-> IF progress = 100 THEN "success" ELSE "error"])
  /\ UNCHANGED <<artists, progress, executions, results_dir, datasets_dir>>
  /\ PageUnchanged

WorkerUnchanged ==
  UNCHANGED <<worker_pc, artists, progress, executions, emitted>>

\* the slot of the progress signal
update_progress ==
  /\ event_queue # <<>>
  /\ Head(event_queue).signal = "progress"
  /\ progress_bar' = Head(event_queue).value.progress
  /\ event_queue' = Tail(event_queue)
  /\ WorkerUnchanged
  /\ UNCHANGED <<results_dir, datasets_dir, loading_overlay, thread_running,
                 page_trace, navigation, workspace_group, error_popup>>

\* the files process_and_move_images moves before a style image is missing:
\* the original, then the styles in order up to the first one without images
RECURSIVE MovedStyles(_)
MovedStyles(i) ==
  IF i > Len(Artists) \/ Artists[i] \notin results_dir THEN {}
  ELSE {Artists[i]} \cup MovedStyles(i + 1)

\* the slot of the finished signal.  On success process_and_move_images
\* moves the original and the four style images into a new group folder
\* (shutil.move raises FileNotFoundError for a style without images, which
\* ends the slot), removes datasets and results, and go_to_workspace is
\* emitted; otherwise the error dialog opens with one line per artist.
on_processing_finished ==
  /\ event_queue # <<>>
  /\ Head(event_queue).signal = "finished"
  /\ event_queue' = Tail(event_queue)
  /\ loading_overlay' = FALSE
  /\ thread_running' = FALSE
  /\ IF Head(event_queue).value.status = "success"
     THEN /\ workspace_group' = {"original"} \cup MovedStyles(1)
          /\ IF MovedStyles(1) = {Artists[i] : i \in 1..Len(Artists)}
             THEN /\ datasets_dir' = FALSE
                  /\ results_dir' = {}
                  /\ page_trace' = <<"overlay.hide", "thread.quit",
                                     "process_and_move_images", "go_to_workspace.emit">>
                  /\ navigation' = Append(navigation, "go_to_workspace")
             ELSE /\ page_trace' = <<"overlay.hide", "thread.quit",
                                     "process_and_move_images", "FileNotFoundError">>
                  /\ UNCHANGED <<datasets_dir, results_dir, navigation>>
          /\ UNCHANGED error_popup
     ELSE /\ error_popup' =
               [open |-> TRUE,
                text |-> [i \in 1..Len(Artists) |-> artists[Artists[i]].text]]
          /\ page_trace' = <<"overlay.hide", "thread.quit", "error_popup.exec_">>
          /\ UNCHANGED <<datasets_dir, results_dir, navigation, workspace_group>>
  /\ progress_bar' = progress_bar
  /\ WorkerUnchanged

\* what the dismissal of the error dialog leaves unchanged
DialogUnchanged ==
  UNCHANGED <<worker_pc, artists, progress, executions, emitted, event_queue,
              results_dir, datasets_dir, progress_bar, loading_overlay,
              thread_running, workspace_group>>

\* on_close_event, the closeEvent of the error dialog: go_to_main is emitted
\* and the event is accepted
on_close_event(emitted_signals) == Append(emitted_signals, "go_to_main")

\* the user closes the window of the error dialog: closeEvent
close_error_window ==
  /\ error_popup.open
  /\ navigation' = on_close_event(navigation)
  /\ error_popup' = [error_popup EXCEPT !.open = FALSE]
  /\ page_trace' = Append(page_trace, "closeEvent")
  /\ DialogUnchanged

\* the user clicks the Close button of the error dialog: the slot of
\* button_box.rejected emits go_to_main and calls error_popup.close(), which
\* sends the dialog its closeEvent
click_close_button ==
  /\ error_popup.open
  /\ navigation' = on_close_event(Append(navigation, "go_to_main"))
  /\ error_popup' = [error_popup EXCEPT !.open = FALSE]
  /\ page_trace' = Append(page_trace, "button_box.rejected")
  /\ DialogUnchanged

\* the user presses Escape in the error dialog: QDialog.reject hides the
\* dialog without a closeEvent, and no slot is connected to its signal
press_escape ==
  /\ error_popup.open
  /\ error_popup' = [error_popup EXCEPT !.open = FALSE]
  /\ page_trace' = Append(page_trace, "QDialog.reject")
  /\ UNCHANGED navigation
  /\ DialogUnchanged

\* the page is constructed: the overlay is shown with the bar at 0 and the
\* thread is started; folders of an earlier run may still be there
InitWorker ==
  /\ worker_pc = "start"
  /\ artists = [a \in {Artists[i] : i \in 1..Len(Artists)} |-> PyFalse]
  /\ progress = 0
  /\ executions = <<>>
  /\ emitted = <<>>
  /\ event_queue = <<>>
  /\ results_dir \in {{}, {Artists[i] : i \in 1..Len(Artists)}}
  /\ datasets_dir \in BOOLEAN
  /\ progress_bar = 0
  /\ loading_overlay = TRUE
  /\ thread_running = TRUE
  /\ page_trace = <<>>
  /\ navigation = <<>>
  /\ workspace_group = {}
  /\ error_popup = [open |-> FALSE, text |-> [i \in 1..Len(Artists) |-> ""]]

(***************************************************************************)
(* The upload page (ui/upload_page.py, NewUploadPage): the selected images, *)
(* the upload and capture buttons, the camera check and the overlay.        *)
(***************************************************************************)
VARIABLES
  selected_images,        \* self.selected_images: the saved paths, in order
  folder_path,            \* the files in temporary_data/uploads
  saved_count,            \* files saved so far: makes the next name unique
  upload_button_enabled,  \* self.upload_button.isEnabled()
  capture_button_enabled, \* self.capture_button.isEnabled()
  capture_button_text,    \* self.capture_button.text()
  cameras_checked,        \* self.cameras_checked: <<>> stands for False
  next_button_visible,    \* self.next_button.isVisible()
  upload_overlay,         \* the overlay message, the toolbar, pending timers
  last_upload,            \* what the last run of upload_images worked on
  upload_ops              \* number of user operations so far

upload_vars ==
  <<selected_images, folder_path, saved_count, upload_button_enabled,
    capture_button_enabled, capture_button_text, cameras_checked,
    next_button_visible, upload_overlay, last_upload, upload_ops>>

max_images == 12
MaxUploadOps == 4

AllowedExtensions == {".png", ".jpg", ".jpeg", ".xpm"}

\* str.lower() on the suffixes the model picks
Lower(suffix) ==
  CASE suffix = ".PNG" -> ".png"
    [] suffix = ".JPG" -> ".jpg"
    [] OTHER -> suffix

\* n files picked in the dialog, named first, first + 1, ...
Picked(first, n, suffix, readable) ==
  [i \in 1..n |-> [stem |-> first + i - 1, suffix |-> suffix,
                   readable |-> readable]]

\* what QFileDialog.getOpenFileNames can return: nothing (cancelled), one
\* image, images with a file that is not an image, more images than there
\* are slots, and an image file that QImage cannot read
FileSelections ==
  { <<>>,
    Picked(1, 1, ".png", TRUE),
    Picked(1, 2, ".JPG", TRUE) \o Picked(3, 1, ".txt", TRUE),
    Picked(1, 1, ".jpeg", FALSE),
    Picked(1, 11, ".jpg", TRUE),
    Picked(1, 13, ".png", TRUE),
    Picked(1, 1, ".pdf", TRUE) \o Picked(2, 13, ".xpm", TRUE) }

IsSupported(f) == Lower(f.suffix) \in AllowedExtensions
IsUnsupported(f) == ~IsSupported(f)

\* file_paths[:remaining_slots] without the limit
AllFilePaths(file_paths, remaining_slots) == file_paths

\* if len(file_paths) > remaining_slots: file_paths[:remaining_slots]
LimitFilePaths(file_paths, remaining_slots) ==
  IF Len(file_paths) > remaining_slots
  THEN SubSeq(file_paths, 1, remaining_slots)
  ELSE file_paths

\* process_and_save_image: the path of the saved .jpg, or None (<<>>) if
\* the image could not be saved
process_and_save_image(file, count) ==
  IF file.readable THEN <<[stem |-> file.stem, id |-> count + 1]>> ELSE <<>>

\* the loop of upload_images: every processed file is added with add_image
RECURSIVE AddImages(_, _, _)
AddImages(selected, file_paths, count) ==
  IF file_paths = <<>> THEN selected
  ELSE AddImages(selected \o process_and_save_image(Head(file_paths), count),
                 Tail(file_paths),
                 count + Len(process_and_save_image(Head(file_paths), count)))

Range(s) == {s[i] : i \in DOMAIN s}

upload_show_overlay_message(message) ==
  upload_overlay' = [visible |-> TRUE, text |-> message,
                     toolbar_enabled |-> FALSE,
                     timers |-> upload_overlay.timers + 1]

\* the timer of show_overlay_message fires: hide_overlay_message
upload_hide_overlay_message ==
  /\ upload_overlay.timers > 0
  /\ upload_overlay' = [visible |-> FALSE, text |-> upload_overlay.text,
                        toolbar_enabled |-> TRUE,
                        timers |-> upload_overlay.timers - 1]
  /\ UNCHANGED <<selected_images, folder_path, saved_count,
                 upload_button_enabled, capture_button_enabled,
                 capture_button_text, cameras_checked, next_button_visible,
                 last_upload, upload_ops>>

\* update_upload_button_status: both buttons follow the number of images
update_upload_button_status(selected) ==
  /\ upload_button_enabled' = ~(Len(selected) >= max_images)
  /\ capture_button_enabled' = ~(Len(selected) >= max_images)

\* the user clicks Upload Images and picks files (or cancels the dialog)
upload_images(picked) ==
  /\ upload_button_enabled
  /\ upload_ops < MaxUploadOps
  /\ upload_ops' = upload_ops + 1
  /\ LET remaining_slots == max_images - Len(selected_images)
         unsupported_files == SelectSeq(picked, IsUnsupported)
         file_paths == SelectSeq(picked, IsSupported)
         kept == LimitFilePaths(file_paths, remaining_slots)
         selected == AddImages(selected_images, kept, saved_count)
     IN /\ IF Len(file_paths) > remaining_slots
           THEN IF unsupported_files # <<>>
                THEN upload_show_overlay_message(
                       "Max. 12 images! First supported file types are processed.")
                ELSE upload_show_overlay_message(
                       "Max. 12 images! First images are processed.")
           ELSE IF unsupported_files # <<>>
                THEN upload_show_overlay_message(
                       "Unsupported files. Only PNG/JPG/JPEG/XPM are processed.")
                ELSE UNCHANGED upload_overlay
        /\ selected_images' = selected
        /\ folder_path' = folder_path \cup Range(selected)
        /\ saved_count' = saved_count + (Len(selected) - Len(selected_images))
        /\ next_button_visible' = (Len(selected) > 0)
        /\ update_upload_button_status(selected)
        /\ last_upload' = [remaining_slots |-> remaining_slots,
                           file_paths |-> file_paths, kept |-> kept,
                           before |-> selected_images, after |-> selected]
  /\ UNCHANGED <<capture_button_text, cameras_checked>>

\* check_connected_cameras: the indices of the cameras that open, or None
\* (<<>>) after disabling the capture button
CamerasFound(main, secondary) ==
  IF main /\ secondary THEN <<0, 1>>
  ELSE IF main THEN <<0>>
  ELSE IF secondary THEN <<1>>
  ELSE <<>>

\* the user clicks Capture Image; the cameras are probed if none is known,
\* and the camera dialog ends with a captured frame or without one
open_camera_dialog(main, secondary, captured) ==
  /\ capture_button_enabled
  /\ upload_ops < MaxUploadOps
  /\ upload_ops' = upload_ops + 1
  /\ LET camera_index_to_use ==
           IF cameras_checked = <<>> THEN CamerasFound(main, secondary)
           ELSE cameras_checked
         selected ==
           IF captured
           THEN selected_images \o <<[stem |-> 0, id |-> saved_count + 1]>>
           ELSE selected_images
     IN IF camera_index_to_use = <<>>
        THEN /\ capture_button_text' = "Cameras unavailable"
             /\ capture_button_enabled' = FALSE
             /\ UNCHANGED <<selected_images, folder_path, saved_count,
                            upload_button_enabled, cameras_checked,
                            next_button_visible>>
        ELSE /\ cameras_checked' = camera_index_to_use
             /\ selected_images' = selected
             /\ folder_path' = folder_path \cup Range(selected)
             /\ saved_count' = saved_count + (Len(selected) - Len(selected_images))
             /\ next_button_visible' = (Len(selected) > 0)
             /\ update_upload_button_status(selected)
             /\ UNCHANGED capture_button_text
  /\ UNCHANGED <<upload_overlay, last_upload>>

\* list.remove: the list without its first element equal to the path
ListRemove(list, index) ==
  SubSeq(list, 1, index - 1) \o SubSeq(list, index + 1, Len(list))

\* the user clicks the delete button of the image at a position of the grid
remove_image(index) ==
  /\ index \in DOMAIN selected_images
  /\ upload_ops < MaxUploadOps
  /\ upload_ops' = upload_ops + 1
  /\ LET selected == ListRemove(selected_images, index)
     IN /\ selected_images' = selected
        /\ folder_path' = folder_path \ {selected_images[index]}
        /\ next_button_visible' = (Len(selected) > 0)
        /\ update_upload_button_status(selected)
  /\ UNCHANGED <<saved_count, capture_button_text, cameras_checked,
                 upload_overlay, last_upload>>

InitUpload ==
  /\ selected_images = <<>>
  /\ folder_path = {}
  /\ saved_count = 0
  /\ upload_button_enabled = TRUE
  /\ capture_button_enabled = TRUE
  /\ capture_button_text = "Capture Image (takes some seconds)"
  /\ cameras_checked = <<>>
  /\ next_button_visible = FALSE
  /\ upload_overlay = [visible |-> FALSE, text |-> "",
                       toolbar_enabled |-> TRUE, timers |-> 0]
  /\ last_upload = [remaining_slots |-> max_images, file_paths |-> <<>>,
                    kept |-> <<>>, before |-> <<>>, after |-> <<>>]
  /\ upload_ops = 0

(***************************************************************************)
(* The editor panes of the gallery page (ui/gallery_page.py): one pane per  *)
(* image group, each with its checkboxes, sliders, export buttons and       *)
(* overlay label, and the toolbar of the page that they share.              *)
(***************************************************************************)
VARIABLES
  panes,            \* the widgets of every editor pane
  gallery_toolbar,  \* self.toolbar.isEnabled()
  pane_ops          \* number of user operations so far

pane_vars == <<panes, gallery_toolbar, pane_ops>>

MaxPaneOps == 4

\* the image groups shown, and the number of versions in each dropdown
PaneNames == {"first", "second"}
Versions == 2

\* create_editor_pane: both effects off, their sliders and export buttons
\* disabled, the overlay hidden
NewPane ==
  [transition_checkbox |-> [checked |-> FALSE, enabled |-> TRUE],
   before_after_checkbox |-> [checked |-> FALSE, enabled |-> TRUE],
   transition_slider |-> FALSE,
   before_after_slider |-> FALSE,
   export_transition_button |-> FALSE,
   export_beforeAfter_button |-> FALSE,
   style_dropdown |-> 0,
   overlay_message |-> [visible |-> FALSE, text |-> "", timers |-> 0]]

\* the stateChanged handler of the transition checkbox
transition_stateChanged(pane, checked) ==
  IF checked
  THEN [pane EXCEPT !.export_transition_button = TRUE,
                    !.transition_slider = TRUE,
                    !.before_after_checkbox.enabled = FALSE,
                    !.before_after_slider = FALSE,
                    !.export_beforeAfter_button = FALSE]
  ELSE [pane EXCEPT !.export_transition_button = FALSE,
                    !.transition_slider = FALSE,
                    !.before_after_checkbox.enabled = TRUE]

\* the handler with the other effect left as it is
before_after_stateChanged_alone(pane, checked) ==
  IF checked
  THEN [pane EXCEPT !.export_beforeAfter_button = TRUE,
                    !.before_after_slider = TRUE]
  ELSE [pane EXCEPT !.export_beforeAfter_button = FALSE,
                    !.before_after_slider = FALSE]

\* the stateChanged handler of the before/after checkbox
before_after_stateChanged(pane, checked) ==
  IF checked
  THEN [pane EXCEPT !.export_beforeAfter_button = TRUE,
                    !.before_after_slider = TRUE,
                    !.transition_checkbox.enabled = FALSE,
                    !.transition_slider = FALSE,
                    !.export_transition_button = FALSE]
  ELSE [pane EXCEPT !.export_beforeAfter_button = FALSE,
                    !.before_after_slider = FALSE,
                    !.transition_checkbox.enabled = TRUE]

\* QCheckBox.setChecked: stateChanged is emitted only if the state changes
SetTransitionChecked(pane, checked) ==
  IF pane.transition_checkbox.checked = checked THEN pane
  ELSE transition_stateChanged(
         [pane EXCEPT !.transition_checkbox.checked = checked], checked)

SetBeforeAfterChecked(pane, checked) ==
  IF pane.before_after_checkbox.checked = checked THEN pane
  ELSE before_after_stateChanged(
         [pane EXCEPT !.before_after_checkbox.checked = checked], checked)

\* the user clicks the transition checkbox of a pane
ToggleTransition(name) ==
  /\ panes[name].transition_checkbox.enabled
  /\ pane_ops < MaxPaneOps
  /\ pane_ops' = pane_ops + 1
  /\ panes' = [panes EXCEPT ![name] =
       SetTransitionChecked(@, ~@.transition_checkbox.checked)]
  /\ UNCHANGED gallery_toolbar

\* the user clicks the before/after checkbox of a pane
ToggleBeforeAfter(name) ==
  /\ panes[name].before_after_checkbox.enabled
  /\ pane_ops < MaxPaneOps
  /\ pane_ops' = pane_ops + 1
  /\ panes' = [panes EXCEPT ![name] =
       SetBeforeAfterChecked(@, ~@.before_after_checkbox.checked)]
  /\ UNCHANGED gallery_toolbar

\* the user selects another image version: currentIndexChanged -> update_image
update_image(name, index) ==
  /\ index # panes[name].style_dropdown
  /\ pane_ops < MaxPaneOps
  /\ pane_ops' = pane_ops + 1
  /\ panes' = [panes EXCEPT ![name] =
       SetBeforeAfterChecked(
         SetTransitionChecked([@ EXCEPT !.style_dropdown = index], FALSE),
         FALSE)]
  /\ UNCHANGED gallery_toolbar

\* show_overlay_message on the overlay label of a pane
pane_show_overlay_message(name, message) ==
  /\ gallery_toolbar' = FALSE
  /\ panes' = [panes EXCEPT ![name].overlay_message =
       [visible |-> TRUE, text |-> message, timers |-> @.timers + 1]]

\* a timer of show_overlay_message fires: hide_overlay_message on the
\* overlay label of the pane that started it
pane_hide_overlay_message(name) ==
  /\ panes[name].overlay_message.timers > 0
  /\ panes' = [panes EXCEPT ![name].overlay_message =
       [visible |-> FALSE, text |-> @.text, timers |-> @.timers - 1]]
  /\ gallery_toolbar' = TRUE
  /\ UNCHANGED pane_ops

\* the user clicks Export Transition or Export Before After and picks a
\* file name, or cancels the dialog
export_view(name, description, chosen) ==
  /\ IF description = "Transition"
     THEN panes[name].export_transition_button
     ELSE panes[name].export_beforeAfter_button
  /\ pane_ops < MaxPaneOps
  /\ pane_ops' = pane_ops + 1
  /\ IF chosen
     THEN pane_show_overlay_message(name, "Image exported.")
     ELSE UNCHANGED <<panes, gallery_toolbar>>

\* the user clicks Export Original or Export Style and picks a file name,
\* or cancels the dialog
export_pixmap(name, chosen) ==
  /\ pane_ops < MaxPaneOps
  /\ pane_ops' = pane_ops + 1
  /\ IF chosen
     THEN pane_show_overlay_message(name, "Image exported.")
     ELSE UNCHANGED <<panes, gallery_toolbar>>

InitPanes ==
  /\ panes = [name \in PaneNames |-> NewPane]
  /\ gallery_toolbar = TRUE
  /\ pane_ops = 0

(***************************************************************************)
(* The specifications: the editor, the calls of the pipeline functions, the *)
(* gallery pane, the style transfer and the upload page, each with the      *)
(* other parts at rest.                                                     *)
(***************************************************************************)
vars ==
  <<editor_vars, call_vars, anim_vars, worker_vars, upload_vars, pane_vars>>

\* one state of each part, for the specifications that leave it at rest
EditorAtRest == InitEditor
CallsAtRest == InitCalls /\ call_base = <<<<<<0, 0, 0>>>>>>
AnimationAtRest == InitAnimation /\ Width(anim_original) = 1
WorkerAtRest == InitWorker /\ results_dir = {} /\ ~datasets_dir
UploadAtRest == InitUpload
PanesAtRest == InitPanes

EditorOnly ==
  UNCHANGED <<call_vars, anim_vars, worker_vars, upload_vars, pane_vars>>
CallsOnly ==
  UNCHANGED <<editor_vars, anim_vars, worker_vars, upload_vars, pane_vars>>
AnimationOnly ==
  UNCHANGED <<editor_vars, call_vars, worker_vars, upload_vars, pane_vars>>
WorkerOnly ==
  UNCHANGED <<editor_vars, call_vars, anim_vars, upload_vars, pane_vars>>
UploadOnly ==
  UNCHANGED <<editor_vars, call_vars, anim_vars, worker_vars, pane_vars>>
PanesOnly ==
  UNCHANGED <<editor_vars, call_vars, anim_vars, worker_vars, upload_vars>>

\* the editor: a user interaction with it
Init ==
  /\ InitEditor /\ CallsAtRest /\ AnimationAtRest /\ WorkerAtRest
  /\ UploadAtRest /\ PanesAtRest

Next ==
  \/ \E name \in SliderNames : \E value \in SliderSamples(name) :
       MoveSlider(name, value) /\ EditorOnly
  \/ \E name \in FilterNames : ToggleFilter(name) /\ EditorOnly
  \/ \E index \in 0..(Len(TintColors) - 1) :
       SelectTintColor(index) /\ EditorOnly
  \/ \E index \in 0..(Len(FrameStyles) - 1) : SelectFrame(index) /\ EditorOnly
  \/ \E index \in 0..(Len(StyleNames) - 1) : SelectStyle(index) /\ EditorOnly
  \/ save_to_gallery /\ EditorOnly
  \/ \E chosen \in BOOLEAN : export_image(chosen) /\ EditorOnly
  \/ editor_hide_overlay_message /\ EditorOnly

Spec == Init /\ [][Next]_vars

\* the pipeline functions: a call of the pipeline or of one of its stages
InitRender ==
  /\ EditorAtRest /\ InitCalls /\ AnimationAtRest /\ WorkerAtRest
  /\ UploadAtRest /\ PanesAtRest

NextRender ==
  \/ \E slider \in {0, 25, 50, 75, 100} : CallBlend(slider) /\ CallsOnly
  \/ \E P \in ParamSets : CallRender(P) /\ CallsOnly
  \/ \E slider \in SliderSamples("Noise") : \E sample \in NoiseSamples(slider) :
       CallNoise(slider, sample) /\ CallsOnly
  \/ CallSepia /\ CallsOnly
  \/ \E slider \in {0, 25, 50, 75, 100} : CallGamma(slider) /\ CallsOnly
  \/ \E slider \in TemperatureSamples : CallTemperature(slider) /\ CallsOnly
  \/ \E slider \in SliderMin("Gamma")..SliderMax("Gamma") :
       CallGammaValue(slider) /\ CallsOnly
  \/ \E threshold \in SolarizeSamples : CallSolarize(threshold) /\ CallsOnly
  \/ \E bits \in SliderMin("Posterize")..SliderMax("Posterize") :
       CallPosterize(bits) /\ CallsOnly
  \/ CallInvert /\ CallsOnly
  \/ CallGrayscale /\ CallsOnly
  \/ \E i \in 1..Len(FrameStyles) : CallFrame(FrameStyles[i]) /\ CallsOnly
  \/ \E slider \in SliderSamples("Paper Texture") :
       \E sample \in PaperSamples(slider) : \E wraps \in BOOLEAN :
         CallPaperTexture(slider, sample, wraps) /\ CallsOnly
  \/ \E P \in ToggleParamSets : \E Q \in Variations(P) :
       CallRenderPair(P, Q) /\ CallsOnly

SpecRender == InitRender /\ [][NextRender]_vars

\* the gallery pane: a user interaction with it, or a timer firing
InitAnim ==
  /\ EditorAtRest /\ CallsAtRest /\ InitAnimation /\ WorkerAtRest
  /\ UploadAtRest /\ PanesAtRest

NextAnim ==
  \/ \E mode \in AnimationModes : \E chosen \in BOOLEAN :
       export_animation_gif(mode, chosen) /\ AnimationOnly
  \/ \E mode \in AnimationModes : \E chosen \in BOOLEAN :
       export_animation_video(mode, chosen) /\ AnimationOnly
  \/ \E slider_value \in PreviewSamples :
       update_before_after(slider_value) /\ AnimationOnly
  \/ hide_overlay_message /\ AnimationOnly

SpecAnim == InitAnim /\ [][NextAnim]_vars

\* the style transfer: a step of the worker's run, or a slot of the page
InitModelWorker ==
  /\ EditorAtRest /\ CallsAtRest /\ AnimationAtRest /\ InitWorker
  /\ UploadAtRest /\ PanesAtRest

NextModelWorker ==
  \/ run_setup /\ WorkerOnly
  \/ \E outcome \in SubprocessOutcomes : run_artist(outcome) /\ WorkerOnly
  \/ run_finished /\ WorkerOnly
  \/ update_progress /\ WorkerOnly
  \/ on_processing_finished /\ WorkerOnly
  \/ close_error_window /\ WorkerOnly
  \/ click_close_button /\ WorkerOnly
  \/ press_escape /\ WorkerOnly

SpecModelWorker == InitModelWorker /\ [][NextModelWorker]_vars

\* the upload page: uploads, captures, removals and the overlay timer
InitNewUploadPage ==
  /\ EditorAtRest /\ CallsAtRest /\ AnimationAtRest /\ WorkerAtRest
  /\ InitUpload /\ PanesAtRest

NextNewUploadPage ==
  \/ /\ \E picked \in FileSelections : upload_images(picked)
     /\ UploadOnly
  \/ /\ \E main \in BOOLEAN, secondary \in BOOLEAN, captured \in BOOLEAN :
          open_camera_dialog(main, secondary, captured)
     /\ UploadOnly
  \/ /\ \E index \in 1..max_images : remove_image(index)
     /\ UploadOnly
  \/ /\ upload_hide_overlay_message
     /\ UploadOnly

SpecNewUploadPage == InitNewUploadPage /\ [][NextNewUploadPage]_vars

\* the gallery folder of one image: saves from the editor with a style
\* selected, and deletes from the gallery page
InitGalleryFolder == Init

NextGalleryFolder ==
  \/ /\ save_to_gallery
     /\ EditorOnly
  \/ /\ \E image_file \in gallery_folder.edits, reply \in BOOLEAN :
          confirm_delete_image(image_file, reply)
     /\ EditorOnly
  \/ /\ \E reply \in BOOLEAN : confirm_delete_all(reply)
     /\ EditorOnly
  \/ /\ \E index \in 0..(Len(StyleNames) - 1) : SelectStyle(index)
     /\ EditorOnly
  \/ /\ editor_hide_overlay_message
     /\ EditorOnly

SpecGalleryFolder == InitGalleryFolder /\ [][NextGalleryFolder]_vars

\* the editor panes of the gallery page: checkboxes, version selections,
\* exports and the overlay timers
InitGalleryPanes ==
  /\ EditorAtRest /\ CallsAtRest /\ AnimationAtRest /\ WorkerAtRest
  /\ UploadAtRest /\ InitPanes

NextGalleryPanes ==
  \/ /\ \E name \in PaneNames : ToggleTransition(name)
     /\ PanesOnly
  \/ /\ \E name \in PaneNames : ToggleBeforeAfter(name)
     /\ PanesOnly
  \/ /\ \E name \in PaneNames, index \in 0..(Versions - 1) :
          update_image(name, index)
     /\ PanesOnly
  \/ /\ \E name \in PaneNames, description \in {"Transition", "Before/After"},
            chosen \in BOOLEAN : export_view(name, description, chosen)
     /\ PanesOnly
  \/ /\ \E name \in PaneNames, chosen \in BOOLEAN : export_pixmap(name, chosen)
     /\ PanesOnly
  \/ /\ \E name \in PaneNames : pane_hide_overlay_message(name)
     /\ PanesOnly

SpecGalleryPanes == InitGalleryPanes /\ [][NextGalleryPanes]_vars

(***************************************************************************)
(* Properties of the adjustment pipeline.                                  *)
(***************************************************************************)
RenderCalled == call_fn = "apply_all_adjustments"

\* C1: two renders of the same base image, styled image and parameter values
\* produce the same image, for every parameter set, Noise and Paper Texture
\* included.
PipelineDeterministic ==
  RenderCalled => call_out[1] = call_out[2]

\* C2: the blend stage at fraction 0 returns the base image and at fraction
\* 100 the styled image, pixel for pixel, for every pair of images of one
\* size.
BlendEndpoints ==
  call_fn = "Blend" =>
    /\ call_arg.slider = 0 => call_out[1] = call_base
    /\ call_arg.slider = 100 => call_out[1] = call_styled

BlendEndpointsReached ==
  /\ call_fn = "Blend"
  /\ call_arg.slider = 100
  /\ call_out[1] = call_styled
  /\ call_styled # call_base
  /\ Width(call_base) > 1

ToneSliders ==
  {"Exposure", "Gamma", "Brightness", "Contrast", "Saturation", "Hue",
   "Temperature", "Sharpness"}

\* all tone sliders at 50, every filter off, no frame
Neutral(P) ==
  /\ \A name \in ToneSliders : P.sliders[name] = 50
  /\ \A name \in FilterNames : ~P.checks[name]
  /\ P.frame = "None"

\* C3: with the eight tone sliders at 50, all filters off and frame None the
\* output of the pipeline is pixel-identical to the blended image.
NeutralToneIdentity ==
  (RenderCalled /\ Neutral(call_arg)) =>
    call_out[1].image =
      Blend(call_base, call_styled, call_arg.sliders["Transition"], 100)

\* the defaults of the parameter record as documented
DocumentedDefault(name) ==
  CASE name = "Transition" -> 100
    [] name = "Blur" -> 50
    [] name = "Posterize" -> 1
    [] name = "Solarize" -> 0
    [] name = "Noise" -> 5
    [] name = "Tint" -> 30
    [] name = "Paper Texture" -> 0
    [] name \in ToneSliders -> 50

Pink == <<255, 105, 180>>

\* C4: after a style change every slider has its documented default, which
\* is the value it was created with, every filter toggle is off, the tint
\* colour is pink and the frame is None.
ResetToDefaults ==
  last_op.op = "SelectStyle" =>
    /\ \A name \in SliderNames :
         sliders[name] = DocumentedDefault(name)
         /\ sliders[name] = SliderDefault(name)
    /\ \A name \in FilterNames : ~filters_enabled[name]
    /\ tint_color = Pink
    /\ FrameStyles[dropdown_index["Frame"] + 1] = "None"

\* the position of a stage in the documented order
StageRank(stage) ==
  CASE stage = "Blend" -> 1
    [] stage = "Invert" -> 2
    [] stage = "Grayscale" -> 3
    [] stage = "Solarize" -> 4
    [] stage = "Sepia" -> 5
    [] stage = "Colorize" -> 6
    [] stage = "Posterize" -> 7
    [] stage = "Noise" -> 8
    [] stage = "Tint" -> 9
    [] stage = "Blur" -> 10
    [] stage = "Exposure" -> 11
    [] stage = "Gamma" -> 12
    [] stage = "Brightness" -> 13
    [] stage = "Contrast" -> 14
    [] stage = "Saturation" -> 15
    [] stage = "Hue" -> 16
    [] stage = "Temperature" -> 17
    [] stage = "Sharpness" -> 18
    [] stage = "Paper Texture" -> 19
    [] stage = "Frame" -> 20

\* C5: whatever the order of the user's toggles and slider moves, the stages
\* of a render run in the one documented order: blend, the colour filters
\* invert .. blur, the eight tone adjustments exposure .. sharpness, paper
\* texture, frame last.
FixedStageOrder ==
  /\ \A i, j \in DOMAIN stage_trace :
       i < j => StageRank(stage_trace[i]) < StageRank(stage_trace[j])
  /\ stage_trace[1] = "Blend"
  /\ stage_trace[Len(stage_trace)] = "Frame"
  /\ \A name \in ToneSliders : \E i \in DOMAIN stage_trace : stage_trace[i] = name
  /\ \A name \in FilterNames :
       (\E i \in DOMAIN stage_trace : stage_trace[i] = name) =>
         filters_enabled[name]

\* Posterize was checked first and Invert after it; Invert ran first
FixedStageOrderReached ==
  /\ last_op = [op |-> "ToggleFilter", arg |-> "Invert"]
  /\ filters_enabled["Invert"]
  /\ filters_enabled["Posterize"]
  /\ \E i, j \in DOMAIN stage_trace :
       i < j /\ stage_trace[i] = "Invert" /\ stage_trace[j] = "Posterize"

(***************************************************************************)
(* Properties of the animation export.                                     *)
(***************************************************************************)
\* the exports that ran their frame loop in the given mode
FramesOf(mode) ==
  {e.frames : e \in {e \in {gif_export, video_export} :
                       e.mode = mode /\ e.frames # <<>>}}

\* C6: in Before/After mode (A the original image, B the styled image)
\* frame 0 is image B exactly and frame 100 is image A exactly.
BeforeAfterEndpoints ==
  \A frames \in FramesOf("Before/After") :
    /\ frames[1] = anim_styled
    /\ frames[FrameCount] = anim_original

\* image B with the columns [0, split) taken from image A
SplitOf(A, B, split) ==
  [y \in 1..Height(B) |-> [x \in 1..Width(B) |->
     IF x <= split THEN A[y][x] ELSE B[y][x]]]

\* the image a pixel of the composite comes from
Side(composite, y, x) ==
  IF composite[y][x] = anim_original[y][x] THEN "original" ELSE "styled"

\* C7: in Before/After mode frame i is the styled image except the columns
\* [0, floor(width*i/100)), which come from the original image; the split
\* column never decreases and goes from 0 to the width; the preview of
\* update_before_after has each image on the side it has in the frames.
BeforeAfterSplit ==
  /\ \A frames \in FramesOf("Before/After") :
       /\ \A i \in 0..(FrameCount - 1) :
            frames[i + 1] =
              SplitOf(anim_original, anim_styled,
                      (Width(anim_styled) * i) \div 100)
       /\ preview.pixmap # <<>> =>
            \A y \in 1..Height(anim_original), x \in 1..Width(anim_original) :
              Side(preview.pixmap, y, x) = Side(frames[preview.slider + 1], y, x)

\* C8: in Transition mode the export generates exactly 101 frames of the
\* size of the inputs, frame i the linear blend of A (original) and B
\* (styled) at i/100, frame 0 equal to A and frame 100 equal to B, and the
\* GIF export and the video export generate the same frames.
TransitionFrames ==
  /\ gif_export.mode = "Transition" => Len(gif_export.frames) = 101
  /\ (video_export.mode = "Transition" /\ video_export.saved) =>
       Len(video_export.frames) = 101
  /\ \A frames \in FramesOf("Transition") :
       /\ Len(frames) = 101
       /\ frames[1] = anim_original
       /\ frames[101] = anim_styled
       /\ \A i \in 0..100 :
            /\ SameSize(frames[i + 1], anim_original)
            /\ \A y \in 1..Height(anim_original), x \in 1..Width(anim_original) :
                 \A c \in 1..4 :
                   LET a == anim_original[y][x][c]
                       b == anim_styled[y][x][c]
                       f == frames[i + 1][y][x][c]
                   IN  100 * f <= 100 * a + i * (b - a)
                       /\ 100 * a + i * (b - a) < 100 * f + 100
  /\ \A f1, f2 \in FramesOf("Transition") : f1 = f2

TransitionFramesReached ==
  /\ gif_export.mode = "Transition"
  /\ video_export.mode = "Transition"
  /\ video_export.saved
  /\ gif_export.frames = video_export.frames
  /\ Len(gif_export.frames) = 101
  /\ Width(anim_original) > 1
  /\ gif_export.frames[51] # anim_original
  /\ gif_export.frames[51] # anim_styled

(***************************************************************************)
(* Properties of the arithmetic of single stages.                          *)
(***************************************************************************)
\* every channel of every pixel of the image satisfies Q
AllChannels(image, Q(_, _, _, _)) ==
  \A y \in 1..Height(image), x \in 1..Width(image) :
    \A c \in 1..3 : Q(y, x, c, image[y][x][c])

\* the sums of the sepia matrix before min(.., 255)
SepiaSum(p, c) ==
  CASE c = 1 -> (393 * p[1] + 769 * p[2] + 189 * p[3]) \div 1000
    [] c = 2 -> (349 * p[1] + 686 * p[2] + 168 * p[3]) \div 1000
    [] c = 3 -> (272 * p[1] + 534 * p[2] + 131 * p[3]) \div 1000

\* C9: noise addition, sepia, temperature shift, gamma and paper-texture
\* generation yield channel values in 0..255, an out-of-range result being
\* clamped to 0 or 255 and never wrapped modulo 256.
StagesClamp ==
  /\ call_fn \in {"apply_noise", "apply_sepia", "adjust_temperature",
                  "adjust_gamma", "generate_paper_texture"} =>
       AllChannels(call_out[1], LAMBDA y, x, c, v : v \in 0..255)
  /\ call_fn = "apply_noise" =>
       AllChannels(call_out[1], LAMBDA y, x, c, v :
         v = CLIP8(call_base[y][x][c] + call_arg.sample))
  /\ call_fn = "apply_sepia" =>
       AllChannels(call_out[1], LAMBDA y, x, c, v :
         v = CLIP8(SepiaSum(call_base[y][x], c)))
  /\ call_fn = "generate_paper_texture" =>
       AllChannels(call_out[1], LAMBDA y, x, c, v : v = CLIP8(call_arg.sample))

TemperatureCalled == call_fn = "adjust_temperature"

\* red, green, blue of the input and of the output of the temperature call
\* satisfy Q at every pixel
TemperaturePixels(Q(_, _)) ==
  \A y \in 1..Height(call_base), x \in 1..Width(call_base) :
    Q(call_base[y][x], call_out[1][y][x])

\* C10 as documented: green never changes; above 50 only
\* red changes, r' = min(255, r + (slider-50)); below 50 only blue changes
\* and is shifted down, never increasing; at 50 the image is unchanged
TemperatureBlueDown ==
  TemperatureCalled =>
    LET shift == call_arg.slider - 50
    IN  TemperaturePixels(LAMBDA p, q :
          /\ q[2] = p[2]
          /\ shift > 0 => q[1] = Min(255, p[1] + shift) /\ q[3] = p[3]
          /\ shift < 0 => q[1] = p[1] /\ q[3] <= p[3]
                          /\ q[3] = Max(0, p[3] + shift)
          /\ shift = 0 => q = p)

\* C10: the temperature stage shifts one channel per sign of slider - 50 and
\* never changes green: above 50 only red changes, r' = min(255, r +
\* (slider-50)); below 50 only blue changes and is shifted up, b' = min(255,
\* b + (50-slider)), never decreasing; at 50 the image is unchanged.
TemperatureShift ==
  TemperatureCalled =>
    LET shift == call_arg.slider - 50
    IN  TemperaturePixels(LAMBDA p, q :
          /\ q[2] = p[2]
          /\ shift > 0 => q[1] = Min(255, p[1] + shift) /\ q[3] = p[3]
          /\ shift < 0 => q[1] = p[1] /\ q[3] >= p[3]
                          /\ q[3] = Min(255, p[3] + (50 - call_arg.slider))
          /\ shift = 0 => q = p)

TemperatureShiftReached ==
  /\ TemperatureCalled
  /\ call_arg.slider < 50
  /\ \E y \in 1..Height(call_base), x \in 1..Width(call_base) :
       /\ call_out[1][y][x][3] > call_base[y][x][3]
       /\ call_out[1][y][x][3] < 255
  /\ \E y \in 1..Height(call_base), x \in 1..Width(call_base) :
       call_out[1][y][x][3] = 255 /\ call_base[y][x][3] + 50 - call_arg.slider > 255

(***************************************************************************)
(* Properties of the filters and of the boundary parameter values.         *)
(***************************************************************************)
\* a parameter set with the Gamma slider at 0, Posterize at 1 bit, or the
\* Transition slider at 0 or 100
BoundaryParams(P) ==
  \/ P.sliders["Gamma"] = 0
  \/ P.checks["Posterize"] /\ P.sliders["Posterize"] = 1
  \/ P.sliders["Transition"] \in {0, 100}

\* the render returned an image: a canvas holding an 8-bit RGB image of the
\* size of the base image
Completed(canvas) ==
  /\ SameSize(canvas.image, call_base)
  /\ AllChannels(canvas.image, LAMBDA y, x, c, v : v \in 0..255)

\* C11: for every Gamma slider position 0..100 the effective gamma is
\* max(0.1, slider/50) (here in hundredths) and 1/gamma is computed without a
\* division by zero; the render completes with Gamma at 0, with Posterize at
\* 1 bit and with the blend at 0 and at 100.
GammaBoundary ==
  /\ call_fn = "gamma_value" =>
       LET g == call_out[1].gamma_value
           e == call_out[1].inv_gamma
       IN  /\ g >= 10 /\ g >= 2 * call_arg.slider
           /\ g \in {10, 2 * call_arg.slider}
           /\ e.raised = "none"
           /\ e.den = g /\ e.den > 0 /\ e.num = 100
  /\ (RenderCalled /\ BoundaryParams(call_arg)) =>
       \A i \in 1..2 : Completed(call_out[i])

GammaBoundaryReached ==
  /\ call_fn = "gamma_value"
  /\ call_arg.slider = 0
  /\ call_out[1].gamma_value = 10
  /\ call_out[1].inv_gamma = [raised |-> "none", num |-> 100, den |-> 10]

\* the image has a channel of value v
HasChannel(image, v) ==
  \E y \in 1..Height(image), x \in 1..Width(image) :
    \E c \in 1..3 : image[y][x][c] = v

\* what solarize is documented to do to every channel
SolarizeRule ==
  AllChannels(call_out[1], LAMBDA y, x, c, v :
    v = IF call_base[y][x][c] >= call_arg.slider
        THEN 255 - call_base[y][x][c] ELSE call_base[y][x][c])

ChannelValues(image, c) ==
  {image[y][x][c] : y \in 1..Height(image), x \in 1..Width(image)}

\* posterize keeps the bits most significant bits of every channel: the low
\* 8 - bits bits of the result are zero and the rest is the input's
KeepsHighBits ==
  AllChannels(call_out[1], LAMBDA y, x, c, v :
    /\ v % (2 ^ (8 - call_arg.slider)) = 0
    /\ v <= call_base[y][x][c]
    /\ call_base[y][x][c] - v < 2 ^ (8 - call_arg.slider))

\* C13 as documented: posterize keeps the given number of most significant
\* bits of each channel; with 8 bits it is the identity, and with 1 bit every
\* channel takes exactly 2 distinct values across the whole image, for every
\* input image.
PosterizeTwoValues ==
  call_fn = "apply_posterize" =>
    /\ KeepsHighBits
    /\ call_arg.slider = 8 => call_out[1] = call_base
    /\ call_arg.slider = 1 =>
         \A c \in 1..3 : Cardinality(ChannelValues(call_out[1], c)) = 2

\* C13: posterize keeps the given number of most significant bits of each
\* channel; with 8 bits it is the identity; with b bits a channel takes at
\* most 2^b distinct values, and with 1 bit every channel value is 0 or 128
\* (128 exactly where the input is at least 128), so a channel takes 2
\* distinct values only if the input has values on both sides of 128.
PosterizeLevels ==
  call_fn = "apply_posterize" =>
    /\ KeepsHighBits
    /\ call_arg.slider = 8 => call_out[1] = call_base
    /\ \A c \in 1..3 :
         Cardinality(ChannelValues(call_out[1], c)) <= 2 ^ call_arg.slider
    /\ call_arg.slider = 1 =>
         /\ AllChannels(call_out[1], LAMBDA y, x, c, v :
              v = IF call_base[y][x][c] >= 128 THEN 128 ELSE 0)
         /\ \A c \in 1..3 :
              (Cardinality(ChannelValues(call_out[1], c)) = 2) <=>
                (\E v \in ChannelValues(call_base, c) : v >= 128) /\
                (\E v \in ChannelValues(call_base, c) : v < 128)

PosterizeLevelsReached ==
  /\ call_fn = "apply_posterize"
  /\ call_arg.slider = 1
  /\ call_base = Colour3x3
  /\ \A c \in 1..3 : ChannelValues(call_out[1], c) = {0, 128}

\* C14: apply_invert complements every channel, and applying it twice
\* returns the original image exactly.
InvertInvolution ==
  call_fn = "apply_invert" =>
    /\ AllChannels(call_out[1], LAMBDA y, x, c, v : v = 255 - call_base[y][x][c])
    /\ call_out[2] = call_base

InvertInvolutionReached ==
  /\ call_fn = "apply_invert"
  /\ call_base = Colour3x3
  /\ call_out[1] # call_base
  /\ call_out[2] = call_base

\* C15: every pixel of the output of apply_grayscale has equal R, G and B
\* values (the luma of the input pixel).
GrayscaleEqualChannels ==
  call_fn = "apply_grayscale" =>
    /\ SameSize(call_out[1], call_base)
    /\ \A y \in 1..Height(call_base), x \in 1..Width(call_base) :
         LET p == call_out[1][y][x]
         IN  /\ p[1] = p[2] /\ p[2] = p[3]
             /\ p[1] \in 0..255

GrayscaleEqualChannelsReached ==
  /\ call_fn = "apply_grayscale"
  /\ call_base = Colour3x3
  /\ call_out[1][1][1] = <<76, 76, 76>>
  /\ call_out[1][2][2] # call_base[2][2]

\* C16: with the style None apply_frame returns the image with its size and
\* every pixel unchanged; with Black, White, Gold or Metallic it returns an
\* image of 800x800 pixels whatever the size of the input.
FrameSize ==
  call_fn = "apply_frame" =>
    /\ call_arg.frame = "None" =>
         /\ call_out[1].size = <<Width(call_base), Height(call_base)>>
         /\ \A y \in 0..(Height(call_base) - 1), x \in 0..(Width(call_base) - 1) :
              CanvasPixel(call_out[1], x, y) = call_base[y + 1][x + 1]
    /\ call_arg.frame \in {"Black", "White", "Gold", "Metallic"} =>
         call_out[1].size = <<800, 800>>

FrameSizeReached ==
  /\ call_fn = "apply_frame"
  /\ call_arg.frame = "Gold"
  /\ Width(call_base) = 2 /\ Height(call_base) = 1
  /\ call_out[1].size = <<800, 800>>

(***************************************************************************)
(* Properties of the style transfer.                                       *)
(***************************************************************************)
\* the subprocess of an execution ended with exit status 0
Succeeded(e) == e.outcome.returncode = 0

\* the positions in emitted of the progress signals sent for an artist
ProgressSignalsFor(artist) ==
  {k \in 1..Len(emitted) :
     emitted[k].signal = "progress" /\ emitted[k].artist = artist}

\* the progress signals are multiples of 25 up to 100, each larger than the
\* one before
ProgressValues ==
  \A k \in 1..Len(emitted) :
    emitted[k].signal = "progress" =>
      /\ emitted[k].value.progress % 25 = 0
      /\ emitted[k].value.progress \in 1..100
      /\ \A j \in 1..(k - 1) :
           emitted[j].signal = "progress" =>
             emitted[j].value.progress < emitted[k].value.progress

\* a failed style does not end the loop: run reaches its end only after all
\* four subprocesses ran
RunsEveryStyle ==
  worker_pc \in {"finish", "done"} => Len(executions) = Len(Artists)

\* C17: during one run exactly one progress signal is emitted for each style
\* whose subprocess succeeded and none for a style whose subprocess failed;
\* the values are strictly increasing multiples of 25 not above 100; the
\* remaining styles still run after a failure.
ProgressPerCompletedStyle ==
  /\ \A i \in 1..Len(executions) :
       Cardinality(ProgressSignalsFor(executions[i].artist)) =
         IF Succeeded(executions[i]) THEN 1 ELSE 0
  /\ ProgressValues
  /\ RunsEveryStyle

\* the positions in emitted of the finished signals
FinishedSignals == {k \in 1..Len(emitted) : emitted[k].signal = "finished"}

\* finished is emitted once, as the last signal of the run
FinishedLast ==
  /\ worker_pc # "done" => FinishedSignals = {}
  /\ worker_pc = "done" => FinishedSignals = {Len(emitted)}

\* the finished signal says success exactly when progress is 100
SuccessIffProgress100 ==
  \A k \in FinishedSignals :
    (emitted[k].value.status = "success") <=> (emitted[k].value.progress = 100)

\* the page emits go_to_workspace only after process_and_move_images has
\* moved the original and the four style images into the workspace
MovedBeforeWorkspace ==
  /\ Len(navigation) <= 1
  /\ navigation # <<>> =>
       /\ navigation = <<"go_to_workspace">>
       /\ page_trace = <<"overlay.hide", "thread.quit",
                         "process_and_move_images", "go_to_workspace.emit">>
       /\ workspace_group =
            {"original"} \cup {Artists[i] : i \in 1..Len(Artists)}

\* C18: a run emits finished exactly once, after all its progress signals;
\* the signal says success if and only if all four styles completed (their
\* subprocesses succeeded, progress reached 100) and error otherwise; on
\* success the page moves the results into the workspace before it emits
\* go_to_workspace.
FinishedOnce ==
  /\ FinishedLast
  /\ SuccessIffProgress100
  /\ \A k \in FinishedSignals :
       (emitted[k].value.status = "success") <=>
         (\A i \in 1..Len(Artists) : Succeeded(executions[i]))
  /\ \A k \in FinishedSignals :
       emitted[k].value.status \in {"success", "error"}
  /\ MovedBeforeWorkspace

\* run_test_script returned False for a subprocess that succeeded and its
\* error output otherwise
ReturnsFalseOrStderr ==
  \A i \in 1..Len(executions) :
    executions[i].execution =
      IF Succeeded(executions[i]) THEN [is_str |-> FALSE, text |-> "False"]
      ELSE [is_str |-> TRUE, text |-> executions[i].outcome.stderr]

\* C19: run_test_script returns False if the subprocess succeeded and the
\* error output otherwise, and the worker counts a style as completed only
\* if its subprocess succeeded: whatever a failed subprocess wrote to stderr,
\* nothing included, its style is not recorded with a results path, gets no
\* progress signal, and the finished signal says error.
FailedStyleIsError ==
  /\ ReturnsFalseOrStderr
  /\ \A i \in 1..Len(executions) :
       ~Succeeded(executions[i]) =>
         /\ artists[executions[i].artist] = executions[i].execution
         /\ ProgressSignalsFor(executions[i].artist) = {}
         /\ \A k \in FinishedSignals : emitted[k].value.status = "error"
         /\ progress <= 25 * Cardinality({j \in 1..Len(executions) :
                                            Succeeded(executions[j])})

(***************************************************************************)
(* Properties of the editor's rendered file.                               *)
(***************************************************************************)
\* the images apply_all_adjustments can write for the current widget values
CurrentRenders ==
  {apply_all_adjustments(baseline_image, original_image, Params, rnd) :
     rnd \in RandomDraws(Params)}

\* C20: after every sequence of slider moves, checkbox toggles, tint, frame
\* and style selections, edit.png exists and was written by a render that
\* read the current parameter values; when Export Current Image or Save to
\* Gallery runs, the image it reads is a render of the current values.
RenderedIsCurrent ==
  /\ "edit.png" \in temp_subfolder
  /\ render_params = Params
  /\ stage_trace = StagesRun(Params)
  /\ last_op.op = "export_image" =>
       /\ last_op.arg \in {"exported", "cancelled"}
       /\ temp_path_edit \in CurrentRenders
       /\ last_op.arg = "exported" => export_read = {temp_path_edit}
  /\ last_op.op = "save_to_gallery" =>
       /\ last_op.arg = "saved"
       /\ temp_path_edit \in CurrentRenders
       /\ temp_path_edit \in {e.image : e \in gallery_folder.edits}
       /\ gallery_folder.original = {baseline_image}

RenderedIsCurrentReached ==
  /\ last_op = [op |-> "export_image", arg |-> "exported"]
  /\ filters_enabled["Grayscale"]
  /\ export_read = {temp_path_edit}
  /\ temp_path_edit.image = apply_grayscale(original_image)
  /\ temp_path_edit.image # original_image

(***************************************************************************)
(* The upload page.                                                         *)
(***************************************************************************)
\* the stems of the paths a run of upload_images added to the list
AddedStems(u) ==
  [i \in 1..(Len(u.after) - Len(u.before)) |-> u.after[Len(u.before) + i].stem]

\* the stems of the files of a list that QImage can read
ReadableStems(file_paths) ==
  [i \in 1..Len(SelectSeq(file_paths, LAMBDA f : f.readable)) |->
     SelectSeq(file_paths, LAMBDA f : f.readable)[i].stem]

\* C21: after any sequence of uploads, captures and removals at most 12
\* images are selected; an upload of more supported files than there are
\* remaining slots keeps only the first remaining-slots files, and the
\* upload button is disabled exactly when 12 images are selected
SelectionLimit ==
  /\ Len(selected_images) <= max_images
  /\ upload_button_enabled <=> Len(selected_images) # max_images
  /\ Len(last_upload.file_paths) > last_upload.remaining_slots
       => /\ last_upload.kept =
               SubSeq(last_upload.file_paths, 1, last_upload.remaining_slots)
          /\ AddedStems(last_upload) = ReadableStems(last_upload.kept)
          /\ Len(last_upload.after) = max_images

\* an upload of 13 images into fewer than 12 free slots filled the list,
\* which also holds a captured image
SelectionLimitReached ==
  /\ Len(last_upload.file_paths) = 13
  /\ last_upload.remaining_slots < max_images
  /\ Len(selected_images) = max_images
  /\ ~upload_button_enabled
  /\ \E i \in DOMAIN selected_images : selected_images[i].stem = 0

\* C29: once check_connected_cameras has found no camera and disabled the
\* capture button ("Cameras unavailable"), the button stays disabled after
\* any later uploads and removals (no camera has been found since: the
\* page still has self.cameras_checked = False)
CaptureStaysDisabled ==
  (capture_button_text = "Cameras unavailable" /\ cameras_checked = <<>>)
    => ~capture_button_enabled

(***************************************************************************)
(* The gallery folder of an image.                                          *)
(***************************************************************************)
EditNames(folder) == {e.name : e \in folder.edits}

\* what a step of the editor or of the gallery page does to the folder
GalleryStep ==
  /\ gallery_folder'.exists =>
       /\ gallery_folder'.original = {baseline_image}
       /\ gallery_folder'.edits # {}
  /\ ~gallery_folder'.exists => PngFiles(gallery_folder') = {}
  /\ last_op'.op = "save_to_gallery" =>
       /\ gallery_folder.exists =>
            gallery_folder'.original = gallery_folder.original
       /\ \E e \in gallery_folder'.edits :
            /\ e.name \notin EditNames(gallery_folder)
            /\ gallery_folder'.edits = gallery_folder.edits \cup {e}
       /\ Cardinality(gallery_folder'.edits) =
            Cardinality(gallery_folder.edits) + 1
  /\ last_op' = [op |-> "confirm_delete_image", arg |-> "Yes"] =>
       IF Cardinality(gallery_folder.edits) > 1
       THEN \E e \in gallery_folder.edits :
              gallery_folder' = [gallery_folder EXCEPT !.edits = @ \ {e}]
       ELSE ~gallery_folder'.exists
  /\ last_op' = [op |-> "confirm_delete_all", arg |-> "Yes"] =>
       ~gallery_folder'.exists

\* C22: after any sequence of Save to Gallery, confirmed single-image
\* deletes and confirmed delete-all operations, a gallery group folder that
\* exists holds its original image and at least one edited image: a save
\* stores the original only when it creates the folder and adds one new
\* file without overwriting one, deleting an edited image that is not the
\* last removes only that file, and deleting the last edited image removes
\* the whole folder with the original
GalleryGroupsComplete == [][GalleryStep]_vars

\* two saves, then one of the two edited images was deleted
GalleryGroupsCompleteReached ==
  /\ last_op = [op |-> "confirm_delete_image", arg |-> "Yes"]
  /\ gallery_folder.exists
  /\ gallery_folder.saved = 2
  /\ Cardinality(gallery_folder.edits) = 1
  /\ gallery_folder.original = {baseline_image}

(***************************************************************************)
(* Properties of the frame of the rendered file.                           *)
(***************************************************************************)
\* the colours of the named frame styles: black, white, #FFD700, #C0C0C0
NamedFrameColour ==
  [Black |-> <<0, 0, 0>>, White |-> <<255, 255, 255>>,
   Gold |-> <<255, 215, 0>>, Metallic |-> <<192, 192, 192>>]

\* coordinates at the corners, beside the two edges of the border, and
\* around the middle of the canvas, where a small image is pasted
ProbeCoordinates ==
  {0, 10, 19, 20, 21, 398, 399, 400, 401, 402, 778, 779, 780, 790, 799}

\* the pixel at column x, row y of the centre crop of an image to the inner
\* size of the canvas (a crop box that leaves the image is filled with black)
CentreCropPixel(image, x, y) ==
  LET sx == (Width(image) - (CanvasSize - 2 * FrameWidth)) \div 2 + x
      sy == (Height(image) - (CanvasSize - 2 * FrameWidth)) \div 2 + y
  IN  IF sx \in 0..(Width(image) - 1) /\ sy \in 0..(Height(image) - 1)
      THEN image[sy + 1][sx + 1]
      ELSE <<0, 0, 0>>

DisabledFilterIgnored ==
  call_fn = "apply_all_adjustments pair" =>
    /\ call_out[1] = call_out[2]
    /\ RandomDraws(call_arg.first) = RandomDraws(call_arg.second)
    /\ StagesRun(call_arg.first) = StagesRun(call_arg.second)
    /\ \A name \in FilterNames :
         name \in Range(StagesRun(call_arg.second)) =>
           call_arg.second.checks[name]
    /\ call_arg.second.sliders["Paper Texture"] = 0 =>
         "Paper Texture" \notin Range(StagesRun(call_arg.second))

\* two calls on a 3x3 image that differ in the slider of the unchecked blur,
\* which would change the image were it applied
DisabledFilterIgnoredReached ==
  /\ call_fn = "apply_all_adjustments pair"
  /\ call_base = Colour3x3
  /\ ~call_arg.first.checks["Blur"]
  /\ call_arg.first.sliders["Blur"] # call_arg.second.sliders["Blur"]
  /\ apply_blur(call_out[1].image, call_arg.second.sliders["Blur"])
       # call_out[1].image
  /\ call_out[1] = call_out[2]

(***************************************************************************)
(* Properties of the gallery editor panes.                                 *)
(***************************************************************************)
\* C26: in each gallery editor pane the Transition and Before/After effects
\* exclude each other: after any sequence of checkbox toggles and image
\* version selections at most one of the two checkboxes is checked, the
\* slider and the export button of an effect are enabled if and only if the
\* checkbox of that effect is checked, and selecting another image version
\* unchecks both
EffectsExclusive ==
  [][\A name \in PaneNames :
       /\ ~(panes'[name].transition_checkbox.checked
            /\ panes'[name].before_after_checkbox.checked)
       /\ panes'[name].transition_slider
            = panes'[name].transition_checkbox.checked
       /\ panes'[name].export_transition_button
            = panes'[name].transition_checkbox.checked
       /\ panes'[name].before_after_slider
            = panes'[name].before_after_checkbox.checked
       /\ panes'[name].export_beforeAfter_button
            = panes'[name].before_after_checkbox.checked
       /\ panes'[name].style_dropdown # panes[name].style_dropdown =>
            /\ ~panes'[name].transition_checkbox.checked
            /\ ~panes'[name].before_after_checkbox.checked]_vars

\* Before/After is on, with its slider and its export button, in a pane
\* that shows another image version, and Transition cannot be checked
EffectsExclusiveReached ==
  \E name \in PaneNames :
    /\ panes[name].style_dropdown = 1
    /\ panes[name].before_after_checkbox.checked
    /\ panes[name].before_after_slider
    /\ panes[name].export_beforeAfter_button
    /\ ~panes[name].transition_checkbox.enabled
    /\ pane_ops = 4

\* C25: the toolbar of a page is disabled while an overlay message is
\* displayed: in every reachable state, also when a second message is shown
\* before the hide timer of the first fires and when the messages of
\* different gallery editor panes overlap in time, the toolbar is disabled
\* whenever an overlay message of the page is visible
ToolbarDisabledWhileMessage ==
  (\E name \in PaneNames : panes[name].overlay_message.visible)
    => ~gallery_toolbar

(***************************************************************************)
(* Properties of the filter widgets of the editor.                         *)
(***************************************************************************)
\* the slider of every slider filter, and the colour dropdown of the tint,
\* is enabled exactly if the checkbox of the filter is checked
EnabledIffChecked ==
  /\ \A name \in SliderFilters : widget_enabled[name] = filters_enabled[name]
  /\ widget_enabled["Tint Dropdown"] = filters_enabled["Tint"]

\* C27: for each of Blur, Posterize, Solarize, Noise, Tint and Paper Texture
\* the slider (and for Tint the colour dropdown) is enabled if and only if
\* the checkbox of the filter is checked, in every reachable state, directly
\* after construction and after a style-change reset included, so that the
\* value of a disabled filter is changed by a reset only
SlidersFollowCheckboxes ==
  [][/\ EnabledIffChecked
     /\ EnabledIffChecked'
     /\ \A name \in SliderFilters :
          (~filters_enabled[name] /\ sliders'[name] # sliders[name])
            => last_op'.op = "SelectStyle"
     /\ (~filters_enabled["Tint"]
         /\ (tint_color' # tint_color
             \/ dropdown_index'["Tint"] # dropdown_index["Tint"]))
          => last_op'.op = "SelectStyle"]_vars

\* a style change after another interaction has reset the widgets: every
\* filter is unchecked and its slider disabled
SlidersFollowCheckboxesReached ==
  /\ last_op.op = "SelectStyle"
  /\ edits > 1
  /\ EnabledIffChecked
  /\ \A name \in SliderFilters : ~widget_enabled[name]

(***************************************************************************)
(* Properties of the animation export.                                     *)
(***************************************************************************)
\* C28: after export_animation_gif or export_animation_video has returned,
\* whether the user confirmed or cancelled the save dialog, the directory
\* temporary_data/animation_temp has been removed
AnimationTempRemoved ==
  (gif_export # NoExport \/ video_export # NoExport) => ~animation_temp

(***************************************************************************)
(* Properties of the error dialog of the style transfer.                   *)
(***************************************************************************)
\* how often a signal of the page has been emitted
TimesEmitted(signal) ==
  Cardinality({k \in 1..Len(navigation) : navigation[k] = signal})

\* C30: after a failed processing run, dismissing the error dialog emits
\* go_to_main exactly once, whether the dialog is dismissed with its Close
\* button or by closing its window, and go_to_workspace is never emitted
\* for a failed run
ErrorDialogNavigatesOnce ==
  (page_trace # <<>>
   /\ page_trace[Len(page_trace)] \in {"button_box.rejected", "closeEvent"})
    => /\ TimesEmitted("go_to_main") = 1
       /\ TimesEmitted("go_to_workspace") = 0

====
